---- MODULE Spec2Model ----
(***************************************************************************)
(* LoyaltyX integration write path: API-key authentication, idempotency    *)
(* store, point ledger, transaction / redemption / customer-upsert         *)
(* handlers, webhook dispatcher and webhook delivery worker, together with *)
(* the dashboard transaction create / edit / delete handlers, the         *)
(* dashboard redemption create / edit / delete handlers and the dashboard  *)
(* reward delete handlers.  Storage failures are steps of their own.       *)
(*                                                                         *)
(* Every handler is a sequence of atomic steps, one per group of awaited   *)
(* storage calls, so that requests in flight interleave between awaits.    *)
(***************************************************************************)
EXTENDS Integers, Sequences, FiniteSets, TLC

VARIABLES
    now,          \* wall clock, in hours
    apiKeys,      \* ApiKey rows: key -> [businessId, isActive, lastUsedAt]
    customers,    \* Customer rows, id = index (autoincrement)
    rewards,      \* Reward rows, by id
    transactions, \* set of Transaction rows
    nextTxId,     \* autoincrement of Transaction.id
    redemptions,  \* set of Redemption rows
    nextRedId,    \* autoincrement of Redemption.id
    webhooks,     \* Webhook rows, id = index
    deliveries,   \* WebhookDelivery rows, id = index
    idem,         \* set of IdempotencyKey rows
    reqs,         \* integration requests: slot -> handler state
    workers       \* invocations of processWebhookDeliveries

vars == <<now, apiKeys, customers, rewards, transactions, nextTxId, redemptions,
          nextRedId, webhooks, deliveries, idem, reqs, workers>>

db == <<customers, transactions, nextTxId, redemptions, nextRedId, deliveries, idem>>

static == <<apiKeys, rewards, webhooks>>

-----------------------------------------------------------------------------
(* Bounds of the model *)

MaxReqs == 2

MaxTime == 36

MaxTx == 3

MaxAmount == 300

(* Program constants *)

TTLHours == 24

MaxAttempts == 5

BatchLimit == 50

DefaultPoints == 0

DefaultAttempts == 0

NeverUsed == -1

Reqs == 1..MaxReqs

Workers == {1, 2}

Businesses == {1, 2}

-----------------------------------------------------------------------------
(* Point ledger *)

(* A ledger that rounds to the nearest point. *)
calculatePointsRounded(amount) == (amount + 50) \div 100

calculatePoints(amount) == amount \div 100

-----------------------------------------------------------------------------
(* Serialisation of a cached response: JSON.stringify({status, body}) and  *)
(* JSON.parse followed by NextResponse.json(body, {status}).               *)

Stringify(response) == <<"status", response.status, "body", response.body>>

ParseResponse(text) == [status |-> text[2], body |-> text[4]]

-----------------------------------------------------------------------------
(* State of one integration request (one invocation of a POST handler).    *)
(* cust / avail / need / awarded are the handler's locals: the customer    *)
(* row read before the mutation (its id and points), the reward's          *)
(* pointsRequired and the computed pointsAwarded; result is the id of the  *)
(* row the handler created; at is the time the handler returned.  apiKey   *)
(* and key are the x-api-key and Idempotency-Key headers.  A dashboard     *)
(* edit or delete holds the ?id= parameter in id and, of the row it read,  *)
(* the owner in cust and the amount (a transaction) or the rewardId (a     *)
(* redemption) in existing.                                                *)

NoBody == [error |-> "", data |-> <<>>, text |-> <<>>]

IdleReq ==
    [pc |-> "idle", kind |-> "none", apiKey |-> "", biz |-> 0, key |-> "",
     custId |-> 0, email |-> "", amount |-> 0, rewardId |-> 0,
     name |-> "", phone |-> "",
     cust |-> 0, avail |-> 0, need |-> 0, awarded |-> 0,
     id |-> 0, existing |-> 0,
     result |-> 0, resp |-> [status |-> 0, body |-> NoBody], at |-> 0]

ErrorBody(msg) == [error |-> msg, data |-> <<>>, text |-> <<>>]

DetailBody(msg, details) == [error |-> msg, data |-> details, text |-> <<>>]

DataBody(fields, text) == [error |-> "", data |-> fields, text |-> text]

(* The body of a handler's catch block: its message and, as details, the  *)
(* message of the error, which names the storage call that threw.          *)
FailureMessage(kind) ==
    IF kind = "tx" THEN "Failed to create transaction"
    ELSE IF kind = "redeem" THEN "Failed to create redemption"
    ELSE "Failed to create/update customer"

FailureBody(kind, call) ==
    [error |-> FailureMessage(kind), data |-> <<>>, text |-> <<call>>]

(* The handler returns: locals are dropped, the response is kept. *)
Respond(q, status, body) ==
    [q EXCEPT !.pc = "done", !.cust = 0, !.avail = 0, !.need = 0, !.awarded = 0,
              !.existing = 0,
              !.resp = [status |-> status, body |-> body], !.at = now]

-----------------------------------------------------------------------------
(* API-key authenticator *)

(* An authenticator that forgets the isActive test. *)
authenticateApiKeyAnyState(apiKey) ==
    IF apiKey = ""
    THEN [success |-> FALSE, businessId |-> 0, error |-> "Missing x-api-key header"]
    ELSE IF apiKey \notin DOMAIN apiKeys
    THEN [success |-> FALSE, businessId |-> 0, error |-> "Invalid API key"]
    ELSE [success |-> TRUE, businessId |-> apiKeys[apiKey].businessId, error |-> ""]

authenticateApiKey(apiKey) ==
    IF apiKey = ""
    THEN [success |-> FALSE, businessId |-> 0, error |-> "Missing x-api-key header"]
    ELSE IF apiKey \notin DOMAIN apiKeys
    THEN [success |-> FALSE, businessId |-> 0, error |-> "Invalid API key"]
    ELSE IF ~apiKeys[apiKey].isActive
    THEN [success |-> FALSE, businessId |-> 0, error |-> "API key is inactive"]
    ELSE [success |-> TRUE, businessId |-> apiKeys[apiKey].businessId, error |-> ""]

(* The storage calls of authenticateApiKey: findUnique is made for every   *)
(* key presented, the lastUsedAt update for a key found and active.        *)
AuthCalls(apiKey) ==
    IF apiKey = ""
    THEN {}
    ELSE IF apiKey \in DOMAIN apiKeys /\ apiKeys[apiKey].isActive
    THEN {"findUnique", "update"}
    ELSE {"findUnique"}

(* authenticateApiKey when one of its storage calls throws: the catch      *)
(* block reports a failure.                                                *)
authenticateApiKeyThrows ==
    [success |-> FALSE, businessId |-> 0, error |-> "Authentication failed"]

-----------------------------------------------------------------------------
(* Idempotency store *)

(* A lookup that forgets the expiry. *)
IdemHitsForever(idempotencyKey, businessId) ==
    {rec \in idem : rec.key = idempotencyKey /\ rec.businessId = businessId}

(* A lookup that forgets the tenant. *)
IdemHitsAnyTenant(idempotencyKey, businessId) ==
    {rec \in idem : rec.key = idempotencyKey /\ rec.expiresAt > now}

(* Rows a lookup by (key, businessId) filtered to expiresAt > now can return. *)
IdemHits(idempotencyKey, businessId) ==
    {rec \in idem : /\ rec.key = idempotencyKey
                    /\ rec.businessId = businessId
                    /\ rec.expiresAt > now}

(* Composite uniqueness of IdempotencyKey on (key, businessId). *)
IdemUnique(idempotencyKey, businessId) ==
    ~\E rec \in idem : rec.key = idempotencyKey /\ rec.businessId = businessId

(* A store that forgets the 24 hour expiry. *)
storeIdempotentResponseNoTTL(idempotencyKey, businessId, response) ==
    IF IdemUnique(idempotencyKey, businessId)
    THEN idem \cup {[key |-> idempotencyKey, businessId |-> businessId,
                     response |-> Stringify(response),
                     expiresAt |-> now]}
    ELSE idem

(* storeIdempotentResponse: the create throws on a uniqueness violation and *)
(* the error is swallowed.                                                  *)
storeIdempotentResponse(idempotencyKey, businessId, response) ==
    IF IdemUnique(idempotencyKey, businessId)
    THEN idem \cup {[key |-> idempotencyKey, businessId |-> businessId,
                     response |-> Stringify(response),
                     expiresAt |-> now + TTLHours]}
    ELSE idem

(* cleanupExpiredIdempotencyKeys: deleteMany where expiresAt < now. *)
cleanupExpiredIdempotencyKeys == {rec \in idem : ~(rec.expiresAt < now)}

-----------------------------------------------------------------------------
(* Webhook dispatcher *)

(* A dispatcher that forgets the isActive filter. *)
SubscribedAnyState(webhook, businessId, event) ==
    /\ webhook.businessId = businessId
    /\ (event \in webhook.events \/ "*" \in webhook.events)

Subscribed(webhook, businessId, event) ==
    /\ webhook.businessId = businessId
    /\ webhook.isActive
    /\ (event \in webhook.events \/ "*" \in webhook.events)

NewDelivery(webhookId, event, ref) ==
    [webhookId |-> webhookId, event |-> event, ref |-> ref,
     status |-> "pending", attempts |-> DefaultAttempts]

RECURSIVE EnqueueFrom(_, _, _, _, _)
EnqueueFrom(dels, i, businessId, event, ref) ==
    IF i > Len(webhooks)
    THEN dels
    ELSE EnqueueFrom(IF Subscribed(webhooks[i], businessId, event)
                     THEN Append(dels, NewDelivery(i, event, ref))
                     ELSE dels,
                     i + 1, businessId, event, ref)

(* enqueueWebhook(businessId, event, data): the delivery rows afterwards. *)
enqueueWebhook(dels, businessId, event, ref) ==
    EnqueueFrom(dels, 1, businessId, event, ref)

-----------------------------------------------------------------------------
(* Customer lookup within the tenant's scope, by id or else by email. *)

FindCustomer(businessId, customerId, customerEmail) ==
    IF customerId # 0
    THEN IF customerId \in DOMAIN customers
            /\ customers[customerId].businessId = businessId
         THEN customerId ELSE 0
    ELSE IF customerEmail # ""
    THEN IF \E c \in DOMAIN customers :
                customers[c].email = customerEmail /\ customers[c].businessId = businessId
         THEN CHOOSE c \in DOMAIN customers :
                customers[c].email = customerEmail /\ customers[c].businessId = businessId
         ELSE 0
    ELSE 0

FindReward(businessId, rewardId) ==
    IF rewardId \in DOMAIN rewards /\ rewards[rewardId].businessId = businessId
    THEN rewardId ELSE 0

-----------------------------------------------------------------------------
(* Steps shared by the three integration POST handlers *)

(* The request arrives and authenticateApiKey runs.  Request slots are     *)
(* interchangeable, so they are taken in order.                            *)
Receive(r, kind, apiKey, idempotencyKey, p) ==
    /\ reqs[r].pc = "idle"
    /\ \A r0 \in Reqs : r0 < r => reqs[r0].pc # "idle"
    /\ LET auth == authenticateApiKey(apiKey)
           q == [IdleReq EXCEPT !.kind = kind, !.apiKey = apiKey,
                                !.key = idempotencyKey,
                                !.custId = p.custId, !.email = p.email,
                                !.amount = p.amount, !.rewardId = p.rewardId,
                                !.name = p.name, !.phone = p.phone]
       IN /\ reqs' = [reqs EXCEPT ![r] =
                      IF auth.success
                      THEN [q EXCEPT !.pc = "check", !.biz = auth.businessId]
                      ELSE Respond(q, 401, ErrorBody(auth.error))]
          /\ apiKeys' = IF auth.success
                        THEN [apiKeys EXCEPT ![apiKey].lastUsedAt = now]
                        ELSE apiKeys
    /\ UNCHANGED <<now, rewards, webhooks, db, workers>>

(* The request arrives and a storage call of authenticateApiKey throws.    *)
ReceiveThrows(r, kind, apiKey, idempotencyKey, p, call) ==
    /\ reqs[r].pc = "idle"
    /\ \A r0 \in Reqs : r0 < r => reqs[r0].pc # "idle"
    /\ call \in AuthCalls(apiKey)
    /\ LET auth == authenticateApiKeyThrows
           q == [IdleReq EXCEPT !.kind = kind, !.apiKey = apiKey,
                                !.key = idempotencyKey,
                                !.custId = p.custId, !.email = p.email,
                                !.amount = p.amount, !.rewardId = p.rewardId,
                                !.name = p.name, !.phone = p.phone]
       IN reqs' = [reqs EXCEPT ![r] = Respond(q, 401, ErrorBody(auth.error))]
    /\ UNCHANGED <<now, static, db, workers>>

(* checkIdempotency, and the short circuit on a cached response. *)
Check(r) ==
    /\ reqs[r].pc = "check"
    /\ LET q == reqs[r]
           hits == IF q.key = "" THEN {} ELSE IdemHits(q.key, q.biz)
       IN IF hits = {}
          THEN reqs' = [reqs EXCEPT ![r].pc = "lookup"]
          ELSE \E existing \in hits :
                 LET cachedResponse == ParseResponse(existing.response)
                 IN reqs' = [reqs EXCEPT ![r] =
                               Respond(q, cachedResponse.status, cachedResponse.body)]
    /\ UNCHANGED <<now, static, db, workers>>

SuccessStatus(kind) == IF kind = "upsert" THEN 200 ELSE 201

(* The response is stored under the Idempotency-Key, if any, and returned. *)
Store(r) ==
    /\ reqs[r].pc = "store"
    /\ LET q == reqs[r]
           response == [status |-> SuccessStatus(q.kind), body |-> q.resp.body]
       IN /\ idem' = IF q.key # ""
                     THEN storeIdempotentResponse(q.key, q.biz, response)
                     ELSE idem
          /\ reqs' = [reqs EXCEPT ![r] = Respond(q, response.status, response.body)]
    /\ UNCHANGED <<now, static, customers, transactions, nextTxId, redemptions,
                   nextRedId, deliveries, workers>>

-----------------------------------------------------------------------------
(* POST /api/integrations/transactions *)

(* A lookup that does not validate the amount. *)
TxLookupUnvalidated(r) ==
    /\ reqs[r].pc = "lookup"
    /\ reqs[r].kind = "tx"
    /\ LET q == reqs[r]
           customer == FindCustomer(q.biz, q.custId, q.email)
       IN reqs' = [reqs EXCEPT ![r] =
            IF q.custId = 0 /\ q.email = ""
            THEN Respond(q, 400, ErrorBody("Missing required fields"))
            ELSE IF customer = 0
            THEN Respond(q, 404, ErrorBody("Customer not found"))
            ELSE [q EXCEPT !.pc = "commit", !.cust = customer,
                           !.awarded = calculatePoints(q.amount)]]
    /\ UNCHANGED <<now, static, db, workers>>

(* Body validation and the customer lookup. *)
TxLookup(r) ==
    /\ reqs[r].pc = "lookup"
    /\ reqs[r].kind = "tx"
    /\ LET q == reqs[r]
           customer == FindCustomer(q.biz, q.custId, q.email)
       IN reqs' = [reqs EXCEPT ![r] =
            IF q.amount = 0 \/ (q.custId = 0 /\ q.email = "")
            THEN Respond(q, 400, ErrorBody("Missing required fields"))
            ELSE IF q.amount <= 0
            THEN Respond(q, 400, ErrorBody("Amount must be greater than 0"))
            ELSE IF customer = 0
            THEN Respond(q, 404, ErrorBody("Customer not found"))
            ELSE [q EXCEPT !.pc = "commit", !.cust = customer,
                           !.awarded = calculatePoints(q.amount)]]
    /\ UNCHANGED <<now, static, db, workers>>

(* prisma.$transaction: insert the row and increment the balance. *)
TxCommit(r) ==
    /\ reqs[r].pc = "commit"
    /\ reqs[r].kind = "tx"
    /\ LET q == reqs[r]
           newBalance == customers[q.cust].points + q.awarded
       IN /\ transactions' = transactions \cup
                {[id |-> nextTxId, customerId |-> q.cust, businessId |-> q.biz,
                  amount |-> q.amount]}
          /\ nextTxId' = nextTxId + 1
          /\ customers' = [customers EXCEPT ![q.cust].points = newBalance]
          /\ reqs' = [reqs EXCEPT ![r] =
                [q EXCEPT !.pc = "emit", !.result = nextTxId,
                          !.resp = [status |-> 0,
                                    body |-> DataBody(<<nextTxId, q.cust, q.amount,
                                                        q.awarded, newBalance>>,
                                                     <<>>)]]]
    /\ UNCHANGED <<now, static, redemptions, nextRedId, deliveries, idem, workers>>

(* enqueueWebhook for transaction_created and then for points_awarded. *)
TxEmit(r) ==
    /\ reqs[r].pc = "emit"
    /\ reqs[r].kind = "tx"
    /\ LET q == reqs[r]
       IN /\ deliveries' =
                enqueueWebhook(
                    enqueueWebhook(deliveries, q.biz, "transaction_created", q.result),
                    q.biz, "points_awarded", q.cust)
          /\ reqs' = [reqs EXCEPT ![r].pc = "store"]
    /\ UNCHANGED <<now, static, customers, transactions, nextTxId, redemptions,
                   nextRedId, idem, workers>>

-----------------------------------------------------------------------------
(* POST /api/integrations/redemptions *)

(* A points check that is off by one. *)
InsufficientOffByOne(available, required) == available + 1 < required

(* customer.points < reward.pointsRequired *)
Insufficient(available, required) == available < required

(* Body validation, the customer and reward lookups and the points check,  *)
(* all on the rows as read here, before the mutation.                      *)
RedeemLookup(r) ==
    /\ reqs[r].pc = "lookup"
    /\ reqs[r].kind = "redeem"
    /\ LET q == reqs[r]
           customer == FindCustomer(q.biz, q.custId, q.email)
           reward == FindReward(q.biz, q.rewardId)
       IN reqs' = [reqs EXCEPT ![r] =
            IF q.rewardId = 0 \/ (q.custId = 0 /\ q.email = "")
            THEN Respond(q, 400, ErrorBody("Missing required fields"))
            ELSE IF customer = 0
            THEN Respond(q, 404, ErrorBody("Customer not found"))
            ELSE IF reward = 0
            THEN Respond(q, 404, ErrorBody("Reward not found"))
            ELSE IF Insufficient(customers[customer].points,
                                 rewards[reward].pointsRequired)
            THEN Respond(q, 400,
                         DetailBody("Insufficient points",
                                    <<rewards[reward].pointsRequired,
                                      customers[customer].points,
                                      rewards[reward].pointsRequired
                                        - customers[customer].points>>))
            ELSE [q EXCEPT !.pc = "commit", !.cust = customer,
                           !.avail = customers[customer].points,
                           !.need = rewards[reward].pointsRequired]]
    /\ UNCHANGED <<now, static, db, workers>>

(* Redemption.rewardId is a foreign key to Reward that restricts: a row    *)
(* cannot be inserted for a reward that is gone, and a reward cannot be    *)
(* deleted while a row references it.                                      *)
RewardExists(rewardId) == rewardId \in DOMAIN rewards

(* A foreign key that does not restrict the delete. *)
RewardReferencedIgnored(rewardId) == FALSE

RewardReferenced(rewardId) == \E x \in redemptions : x.rewardId = rewardId

(* prisma.$transaction: insert the row and decrement the balance.  The     *)
(* insert throws when the reward read by the lookup is gone; the handler   *)
(* then answers 500.                                                       *)
RedeemCommit(r) ==
    /\ reqs[r].pc = "commit"
    /\ reqs[r].kind = "redeem"
    /\ LET q == reqs[r]
           newBalance == customers[q.cust].points - q.need
       IN IF RewardExists(q.rewardId)
          THEN /\ redemptions' = redemptions \cup
                     {[id |-> nextRedId, customerId |-> q.cust, rewardId |-> q.rewardId]}
               /\ nextRedId' = nextRedId + 1
               /\ customers' = [customers EXCEPT ![q.cust].points = newBalance]
               /\ reqs' = [reqs EXCEPT ![r] =
                     [q EXCEPT !.pc = "emit", !.result = nextRedId,
                               !.resp = [status |-> 0,
                                         body |-> DataBody(<<nextRedId, q.cust,
                                                             q.rewardId, q.need,
                                                             newBalance>>,
                                                           <<>>)]]]
          ELSE /\ reqs' = [reqs EXCEPT ![r] =
                     Respond(q, 500, FailureBody(q.kind, "$transaction"))]
               /\ UNCHANGED <<redemptions, nextRedId, customers>>
    /\ UNCHANGED <<now, static, transactions, nextTxId, deliveries, idem, workers>>

(* enqueueWebhook for redemption_completed. *)
RedeemEmit(r) ==
    /\ reqs[r].pc = "emit"
    /\ reqs[r].kind = "redeem"
    /\ deliveries' = enqueueWebhook(deliveries, reqs[r].biz, "redemption_completed",
                                    reqs[r].result)
    /\ reqs' = [reqs EXCEPT ![r].pc = "store"]
    /\ UNCHANGED <<now, static, customers, transactions, nextTxId, redemptions,
                   nextRedId, idem, workers>>

-----------------------------------------------------------------------------
(* POST /api/integrations/customers *)

(* The row with this email, whatever its tenant (email is the unique key). *)
CustomerByEmail(email) ==
    IF \E c \in DOMAIN customers : customers[c].email = email
    THEN CHOOSE c \in DOMAIN customers : customers[c].email = email
    ELSE 0

(* An upsert whose update branch writes the create data, points included. *)
UpsertRowResetsPoints(q, found) ==
    [businessId |-> IF found # 0 THEN customers[found].businessId ELSE q.biz,
     email |-> q.email, name |-> q.name, phone |-> q.phone, points |-> DefaultPoints]

(* The row the upsert leaves: the update data on the row found, or else   *)
(* the create data.                                                        *)
UpsertRow(q, found) ==
    IF found # 0
    THEN [customers[found] EXCEPT
             !.name = q.name,
             !.phone = IF q.phone # "" THEN q.phone ELSE @]
    ELSE [businessId |-> q.biz, email |-> q.email, name |-> q.name,
          phone |-> q.phone, points |-> DefaultPoints]

(* Body validation and prisma.customer.upsert({where: {email}}). *)
UpsertExec(r) ==
    /\ reqs[r].pc = "lookup"
    /\ reqs[r].kind = "upsert"
    /\ LET q == reqs[r]
           found == CustomerByEmail(q.email)
           id == IF found # 0 THEN found ELSE Len(customers) + 1
           row == UpsertRow(q, found)
       IN IF q.email = "" \/ q.name = ""
          THEN /\ reqs' = [reqs EXCEPT ![r] =
                             Respond(q, 400, ErrorBody("Missing required fields"))]
               /\ customers' = customers
          ELSE /\ customers' = IF found # 0
                               THEN [customers EXCEPT ![found] = row]
                               ELSE Append(customers, row)
               /\ reqs' = [reqs EXCEPT ![r] =
                     [q EXCEPT !.pc = "emit", !.cust = id, !.result = id,
                               !.resp = [status |-> 0,
                                         body |-> DataBody(<<id, row.points>>,
                                                           <<row.name, row.email,
                                                             row.phone>>)]]]
    /\ UNCHANGED <<now, static, transactions, nextTxId, redemptions, nextRedId,
                   deliveries, idem, workers>>

(* enqueueWebhook for customer_created, on either branch of the upsert. *)
UpsertEmit(r) ==
    /\ reqs[r].pc = "emit"
    /\ reqs[r].kind = "upsert"
    /\ deliveries' = enqueueWebhook(deliveries, reqs[r].biz, "customer_created",
                                    reqs[r].cust)
    /\ reqs' = [reqs EXCEPT ![r].pc = "store"]
    /\ UNCHANGED <<now, static, customers, transactions, nextTxId, redemptions,
                   nextRedId, idem, workers>>

-----------------------------------------------------------------------------
(* Dashboard /api/transactions: POST (create) and DELETE.  Each handler is *)
(* one step: its reads are followed by one prisma.$transaction.            *)

DashCreate(businessId, customerId, amount) ==
    /\ nextTxId <= MaxTx
    /\ amount > 0
    /\ customerId \in DOMAIN customers
    /\ customers[customerId].businessId = businessId
    /\ LET points == calculatePoints(amount)
       IN /\ transactions' = transactions \cup
                {[id |-> nextTxId, customerId |-> customerId,
                  businessId |-> businessId, amount |-> amount]}
          /\ nextTxId' = nextTxId + 1
          /\ customers' = [customers EXCEPT ![customerId].points = @ + points]
    /\ UNCHANGED <<now, static, redemptions, nextRedId, deliveries, idem, reqs, workers>>

(* A delete that reverses with Math.round instead of the ledger's floor. *)
DashDeleteRounded(id) ==
    \E existingTransaction \in transactions :
        /\ existingTransaction.id = id
        /\ LET pointsToRemove == (existingTransaction.amount + 50) \div 100
           IN /\ transactions' = transactions \ {existingTransaction}
              /\ customers' = [customers EXCEPT
                                 ![existingTransaction.customerId].points =
                                     @ - pointsToRemove]
        /\ UNCHANGED <<now, static, nextTxId, redemptions, nextRedId, deliveries,
                       idem, reqs, workers>>

DashDelete(id) ==
    \E existingTransaction \in transactions :
        /\ existingTransaction.id = id
        /\ LET pointsToRemove == calculatePoints(existingTransaction.amount)
           IN /\ transactions' = transactions \ {existingTransaction}
              /\ customers' = [customers EXCEPT
                                 ![existingTransaction.customerId].points =
                                     @ - pointsToRemove]
        /\ UNCHANGED <<now, static, nextTxId, redemptions, nextRedId, deliveries,
                       idem, reqs, workers>>

-----------------------------------------------------------------------------
(* Webhook delivery worker: processWebhookDeliveries and deliverWebhook.   *)
(* An invocation reads its batch once; every row of the batch is then      *)
(* POSTed and updated from the copy read with the batch.                   *)

Min(a, b) == IF a < b THEN a ELSE b

Eligible == {i \in DOMAIN deliveries :
                deliveries[i].status = "pending" /\ deliveries[i].attempts < MaxAttempts}

RECURSIVE BatchFrom(_, _)
BatchFrom(i, left) ==
    IF i > Len(deliveries) \/ left = 0
    THEN <<>>
    ELSE IF i \in Eligible
    THEN <<[id |-> i, attempts |-> deliveries[i].attempts,
            up |-> webhooks[deliveries[i].webhookId].up]>> \o BatchFrom(i + 1, left - 1)
    ELSE BatchFrom(i + 1, left)

(* findMany of the pending rows with attempts < 5, take 50. *)
WorkerSelect(w) ==
    /\ workers[w].pc = "idle"
    /\ Eligible # {}
    /\ workers' = [workers EXCEPT ![w] =
                      [pc |-> "post", batch |-> BatchFrom(1, BatchLimit),
                       outcome |-> "none"]]
    /\ UNCHANGED <<now, static, db, reqs>>

(* The POST to the hook's URL: 2xx, another status, or fetch throws.  An   *)
(* endpoint that is down never answers 2xx.                                *)
WorkerPost(w) ==
    /\ workers[w].pc = "post"
    /\ \E outcome \in {"ok", "bad", "error"} :
          /\ (outcome = "ok" => Head(workers[w].batch).up)
          /\ workers' = [workers EXCEPT ![w].pc = "update", ![w].outcome = outcome]
    /\ UNCHANGED <<now, static, db, reqs>>

(* A ceiling test that is off by one. *)
FailureStatusOffByOne(attempts) ==
    IF attempts + 1 > MaxAttempts THEN "failed" ELSE "pending"

(* The status written after a failed attempt. *)
FailureStatus(attempts) == IF attempts + 1 >= MaxAttempts THEN "failed" ELSE "pending"

(* The update of the row after the POST, from the copy read with the batch. *)
WorkerUpdate(w) ==
    /\ workers[w].pc = "update"
    /\ LET delivery == Head(workers[w].batch)
           rest == Tail(workers[w].batch)
       IN /\ deliveries' = [deliveries EXCEPT
                ![delivery.id].status = IF workers[w].outcome = "ok"
                                        THEN "success"
                                        ELSE FailureStatus(delivery.attempts),
                ![delivery.id].attempts = delivery.attempts + 1]
          /\ workers' = [workers EXCEPT ![w] =
                [pc |-> IF rest = <<>> THEN "idle" ELSE "post", batch |-> rest,
                 outcome |-> "none"]]
    /\ UNCHANGED <<now, static, customers, transactions, nextTxId, redemptions,
                   nextRedId, idem, reqs>>

-----------------------------------------------------------------------------
(* Time passes; the periodic cleanup of expired idempotency records runs.  *)

Tick ==
    /\ now + TTLHours \div 2 <= MaxTime
    /\ now' = now + TTLHours \div 2
    /\ UNCHANGED <<static, db, reqs, workers>>

Cleanup ==
    /\ idem' = cleanupExpiredIdempotencyKeys
    /\ idem' # idem
    /\ UNCHANGED <<now, static, customers, transactions, nextTxId, redemptions,
                   nextRedId, deliveries, reqs, workers>>

-----------------------------------------------------------------------------
(* Initial states: a seeded database, no request in flight. *)

Payload(custId, email, amount, rewardId, name, phone) ==
    [custId |-> custId, email |-> email, amount |-> amount, rewardId |-> rewardId,
     name |-> name, phone |-> phone]

SeedApiKeys ==
    [k \in {"key1", "key2", "keyOff"} |->
        [businessId |-> IF k = "key2" THEN 2 ELSE 1, isActive |-> k # "keyOff",
         lastUsedAt |-> NeverUsed]]

SeedCustomer(businessId, email, name, points) ==
    [businessId |-> businessId, email |-> email, name |-> name, phone |-> "",
     points |-> points]

SeedRewards ==
    <<[businessId |-> 1, pointsRequired |-> 2],
      [businessId |-> 2, pointsRequired |-> 1],
      [businessId |-> 1, pointsRequired |-> 3]>>

Hook(businessId, isActive, events, up) ==
    [businessId |-> businessId, isActive |-> isActive, events |-> events, up |-> up]

(* Webhook registrations: two hooks of tenant 1 on transaction_created     *)
(* only, an inactive wildcard hook of tenant 1 and a wildcard hook of       *)
(* tenant 2; or one wildcard hook and one redemption hook of tenant 1.      *)
SeedWebhooks ==
    { <<Hook(1, TRUE, {"transaction_created"}, TRUE),
        Hook(1, TRUE, {"transaction_created"}, FALSE),
        Hook(1, FALSE, {"*"}, TRUE),
        Hook(2, TRUE, {"*"}, TRUE)>>,
      <<Hook(1, TRUE, {"*"}, FALSE),
        Hook(1, TRUE, {"redemption_completed", "customer_created"}, TRUE)>> }

IdleWorker == [pc |-> "idle", batch |-> <<>>, outcome |-> "none"]

InitWith(points, hooks) ==
    /\ now = 0
    /\ apiKeys = SeedApiKeys
    /\ customers = <<SeedCustomer(1, "a@x", "Ann", points),
                     SeedCustomer(2, "b@x", "Bob", points)>>
    /\ rewards = SeedRewards
    /\ transactions = {}
    /\ nextTxId = 1
    /\ redemptions = {}
    /\ nextRedId = 1
    /\ webhooks = hooks
    /\ deliveries = <<>>
    /\ idem = {}
    /\ reqs = [r \in Reqs |-> IdleReq]
    /\ workers = [w \in Workers |-> IdleWorker]

-----------------------------------------------------------------------------
(* Specification of the transaction-create endpoint with its idempotency   *)
(* records, the clock and the cleanup.                                     *)

TxPayloads ==
    { Payload(1, "", 250, 0, "", ""),
      Payload(0, "a@x", 100, 0, "", "") }

AllHooks == CHOOSE hooks \in SeedWebhooks : Len(hooks) = 2

TxHooks == CHOOSE hooks \in SeedWebhooks : Len(hooks) = 4

InitTx == InitWith(0, TxHooks)

NextTx ==
    \/ \E r \in Reqs, idk \in {"", "K"}, p \in TxPayloads :
          Receive(r, "tx", "key1", idk, p)
    \/ \E r \in Reqs : Check(r)
    \/ \E r \in Reqs : TxLookup(r)
    \/ \E r \in Reqs : TxCommit(r)
    \/ \E r \in Reqs : TxEmit(r)
    \/ \E r \in Reqs : Store(r)
    \/ Tick
    \/ Cleanup

SpecTx == InitTx /\ [][NextTx]_vars

-----------------------------------------------------------------------------
(* Specification of the redemption-create endpoint. *)

RedeemPayloads ==
    { Payload(1, "", 0, 1, "", ""),
      Payload(0, "a@x", 0, 3, "", "") }

InitRedeem == \E points \in {1, 2, 3} : InitWith(points, AllHooks)

NextRedeem ==
    \/ \E r \in Reqs, idk \in {"", "K"}, p \in RedeemPayloads :
          Receive(r, "redeem", "key1", idk, p)
    \/ \E r \in Reqs : Check(r)
    \/ \E r \in Reqs : RedeemLookup(r)
    \/ \E r \in Reqs : RedeemCommit(r)
    \/ \E r \in Reqs : RedeemEmit(r)
    \/ \E r \in Reqs : Store(r)

SpecRedeem == InitRedeem /\ [][NextRedeem]_vars

-----------------------------------------------------------------------------
(* Specification of the customer-upsert endpoint, used by both tenants. *)

UpsertPayloads ==
    { Payload(0, "a@x", 0, 0, "Anna", ""),
      Payload(0, "c@x", 0, 0, "Cy", "071"),
      Payload(0, "c@x", 0, 0, "Cyd", "") }

InitUpsert == InitWith(3, AllHooks)

NextUpsert ==
    \/ \E r \in Reqs, k \in {"key1", "key2"}, idk \in {"", "K"}, p \in UpsertPayloads :
          Receive(r, "upsert", k, idk, p)
    \/ \E r \in Reqs : Check(r)
    \/ \E r \in Reqs : UpsertExec(r)
    \/ \E r \in Reqs : UpsertEmit(r)
    \/ \E r \in Reqs : Store(r)

SpecUpsert == InitUpsert /\ [][NextUpsert]_vars

-----------------------------------------------------------------------------
(* Specification of the dashboard transaction handlers. *)

InitLedger == \E hooks \in SeedWebhooks : InitWith(3, hooks)

NextLedger ==
    \/ \E b \in Businesses, c \in {1, 2}, a \in {99, 100, 250} : DashCreate(b, c, a)
    \/ \E id \in 1..MaxTx : DashDelete(id)

SpecLedger == InitLedger /\ [][NextLedger]_vars

-----------------------------------------------------------------------------
(* Specifications of the delivery worker.  The database is the one left by *)
(* count transaction-creates of tenant 1 (amount 250, customer 1): the     *)
(* transaction_created deliveries of the first have been attempted in vain *)
(* age times, those of the second have just been enqueued.                 *)

Aged(dels, age) ==
    [i \in DOMAIN dels |-> [dels[i] EXCEPT !.attempts = age]]

SeedTransaction(id) ==
    [id |-> id, customerId |-> 1, businessId |-> 1, amount |-> 250]

InitWorker(hooks, age, count) ==
    /\ now = 0
    /\ apiKeys = SeedApiKeys
    /\ customers = <<SeedCustomer(1, "a@x", "Ann", count * calculatePoints(250)),
                     SeedCustomer(2, "b@x", "Bob", 0)>>
    /\ rewards = SeedRewards
    /\ transactions = {SeedTransaction(id) : id \in 1..count}
    /\ nextTxId = count + 1
    /\ redemptions = {}
    /\ nextRedId = 1
    /\ webhooks = hooks
    /\ deliveries =
          LET first == Aged(enqueueWebhook(<<>>, 1, "transaction_created", 1), age)
          IN IF count = 1
             THEN first
             ELSE enqueueWebhook(first, 1, "transaction_created", 2)
    /\ idem = {}
    /\ reqs = [r \in Reqs |-> IdleReq]
    /\ workers = [w \in Workers |-> IdleWorker]

InitSweep == \E hooks \in SeedWebhooks, age \in {0, 3} : InitWorker(hooks, age, 2)

InitOverlap == \E hooks \in SeedWebhooks, age \in {0, 3} : InitWorker(hooks, age, 1)

(* One invocation of the worker at a time. *)
NextSweep ==
    \/ WorkerSelect(1)
    \/ WorkerPost(1)
    \/ WorkerUpdate(1)

SpecSweep == InitSweep /\ [][NextSweep]_vars

(* Invocations of the worker that overlap. *)
NextWorkers ==
    \/ \E w \in Workers : WorkerSelect(w)
    \/ \E w \in Workers : WorkerPost(w)
    \/ \E w \in Workers : WorkerUpdate(w)

SpecWorkers == InitOverlap /\ [][NextWorkers]_vars

-----------------------------------------------------------------------------
(* Properties of the transaction-create endpoint *)

SamePost(q1, q2) ==
    /\ q1.kind = q2.kind
    /\ q1.biz = q2.biz
    /\ q1.key = q2.key
    /\ q1.custId = q2.custId
    /\ q1.email = q2.email
    /\ q1.amount = q2.amount

(* No request other than r0 and r has used the key of r0. *)
OnlyUsers(r0, r) ==
    \A r1 \in Reqs \ {r0, r} :
        \/ reqs[r1].pc = "idle"
        \/ reqs[r1].key # reqs[r0].key
        \/ reqs[r1].biz # reqs[r0].biz

NoDuplicateUnderInterleaving ==
    now < 24 =>
        \A r1, r2 \in Reqs :
            ( /\ r1 # r2
              /\ reqs[r1].kind = "tx" /\ reqs[r2].kind = "tx"
              /\ reqs[r1].key # "" /\ reqs[r1].key = reqs[r2].key
              /\ reqs[r1].biz = reqs[r2].biz )
            => ~(reqs[r1].result # 0 /\ reqs[r2].result # 0)

(* The delivery rows added by a step. *)
Added(event, webhookId) ==
    {i \in (Len(deliveries) + 1)..Len(deliveries') :
        deliveries'[i].event = event /\ deliveries'[i].webhookId = webhookId}

(* C7: webhook fan-out.  When the transaction-create handler of tenant T    *)
(* emits its events, each of transaction_created and points_awarded gets    *)
(* exactly one new pending Delivery row, with no attempt made, for every    *)
(* webhook of T that is active and subscribed to the event or to '*', and   *)
(* none for any other webhook; existing rows are untouched and no row is    *)
(* added for any other event.                                               *)
WebhookFanOut ==
    [][\A r \in Reqs :
         (reqs[r].kind = "tx" /\ reqs[r].pc = "emit" /\ reqs'[r].pc = "store")
         => /\ Len(deliveries') >= Len(deliveries)
            /\ SubSeq(deliveries', 1, Len(deliveries)) = deliveries
            /\ \A i \in (Len(deliveries) + 1)..Len(deliveries') :
                  /\ deliveries'[i].status = "pending"
                  /\ deliveries'[i].attempts = 0
                  /\ deliveries'[i].event \in {"transaction_created", "points_awarded"}
            /\ \A w \in DOMAIN webhooks :
                 \A e \in {"transaction_created", "points_awarded"} :
                    Cardinality(Added(e, w)) =
                        IF /\ webhooks[w].businessId = reqs[r].biz
                           /\ webhooks[w].isActive
                           /\ (e \in webhooks[w].events \/ "*" \in webhooks[w].events)
                        THEN 1 ELSE 0
       ]_vars

(* Two hooks subscribed to transaction_created only, next to an inactive    *)
(* hook and a hook of another tenant: one transaction, two Delivery rows.   *)
TwoHooksTwoDeliveries ==
    /\ Len(webhooks) = 4
    /\ Cardinality(transactions) = 1
    /\ \E r \in Reqs : reqs[r].pc = "store" /\ reqs[r].result # 0
    /\ Len(deliveries) = 2
    /\ {deliveries[i].webhookId : i \in DOMAIN deliveries} = {1, 2}

-----------------------------------------------------------------------------
(* Properties of the redemption-create endpoint *)

(* C3: no over-redemption.  When redemption-create reads a customer with    *)
(* balance B and a reward of the same tenant with pointsRequired R > B, it  *)
(* returns 400 'Insufficient points' with required = R, available = B and   *)
(* shortage = R - B, creates no Redemption row and leaves the balance B.    *)
NoOverRedemption ==
    [][\A r \in Reqs :
         LET q == reqs[r]
             c == FindCustomer(q.biz, q.custId, q.email)
             w == FindReward(q.biz, q.rewardId)
         IN ( /\ q.kind = "redeem"
              /\ q.pc = "lookup"
              /\ reqs'[r].pc # "lookup"
              /\ c # 0 /\ w # 0
              /\ rewards[w].pointsRequired > customers[c].points )
            => /\ reqs'[r].pc = "done"
               /\ reqs'[r].resp.status = 400
               /\ reqs'[r].resp.body.error = "Insufficient points"
               /\ reqs'[r].resp.body.data =
                     <<rewards[w].pointsRequired, customers[c].points,
                       rewards[w].pointsRequired - customers[c].points>>
               /\ reqs'[r].result = 0
               /\ redemptions' = redemptions
               /\ customers' = customers
               /\ customers'[c].points = reqs'[r].resp.body.data[2]
       ]_vars

(* A redemption has been refused for a shortage of points. *)
RedemptionRefused ==
    \E r \in Reqs :
        /\ reqs[r].pc = "done"
        /\ reqs[r].kind = "redeem"
        /\ reqs[r].resp.status = 400
        /\ reqs[r].resp.body.error = "Insufficient points"
        /\ reqs[r].resp.body.data = <<3, 2, 1>>
        /\ redemptions = {}
        /\ customers[1].points = 2

(* C4: check and decrement are one atomic unit.  Every redemption that has  *)
(* been created found, at its decrement, a balance of at least the reward's *)
(* pointsRequired (its newBalance is not negative), so no balance is ever   *)
(* below zero, whatever the interleaving of the requests.                   *)
RedemptionChecksAtDecrement ==
    /\ \A r \in Reqs :
          (reqs[r].kind = "redeem" /\ reqs[r].result # 0)
          => reqs[r].resp.body.data[5] >= 0
    /\ \A c \in DOMAIN customers : customers[c].points >= 0

-----------------------------------------------------------------------------
(* Properties of the dashboard transaction handlers *)

RECURSIVE SumPoints(_)
SumPoints(rows) ==
    IF rows = {}
    THEN 0
    ELSE LET t == CHOOSE t \in rows : TRUE
         IN calculatePoints(t.amount) + SumPoints(rows \ {t})

(* C5: balance conservation.  Every balance is its seeded value (3) plus    *)
(* the points of the customer's current Transaction rows, so that creating  *)
(* a transaction of amount A > 0 and then deleting that row returns the     *)
(* balance to exactly its value before the create.                          *)
BalanceConservation ==
    \A c \in DOMAIN customers :
        customers[c].points =
            3 + SumPoints({t \in transactions : t.customerId = c})

(* Rows were created and all of them deleted again. *)
CreatedThenDeleted ==
    /\ nextTxId = 3
    /\ transactions = {}
    /\ customers[1].points = 3
    /\ customers[2].points = 3

-----------------------------------------------------------------------------
(* Properties of the customer-upsert endpoint *)

(* C6: upsert idempotence.  An upsert leaves exactly one customer row for   *)
(* its email, named as the call says: the row that had the email before,   *)
(* with its points unchanged, or else a new row with points = 0; no other   *)
(* row changes, and no step of the endpoint changes the points of a row.    *)
(* So two upserts of one email with different names leave one row for the   *)
(* email, with the name of the second.                                      *)
UpsertIdempotence ==
    [][/\ \A c \in DOMAIN customers :
            c \in DOMAIN customers' /\ customers'[c].points = customers[c].points
       /\ \A r \in Reqs :
            LET q == reqs[r]
                before == {c \in DOMAIN customers : customers[c].email = q.email}
                after == {c \in DOMAIN customers' : customers'[c].email = q.email}
            IN (q.kind = "upsert" /\ q.pc = "lookup" /\ reqs'[r].pc = "emit")
               => /\ Cardinality(after) = 1
                  /\ before \subseteq after
                  /\ \A c \in after :
                        /\ customers'[c].name = q.name
                        /\ customers'[c].points =
                              IF c \in before THEN customers[c].points ELSE 0
                        /\ reqs'[r].resp.body.data = <<c, customers'[c].points>>
                  /\ \A c \in DOMAIN customers :
                        c \notin after => customers'[c] = customers[c]
                  /\ Len(customers') = Len(customers) + IF before = {} THEN 1 ELSE 0
      ]_vars

(* Two upserts of c@x with different names have finished: one row, created  *)
(* with 0 points by the first and carrying the name of the second.          *)
TwoUpsertsOneRow ==
    \E r1, r2 \in Reqs :
        /\ reqs[r1].pc = "done" /\ reqs[r2].pc = "done"
        /\ reqs[r1].kind = "upsert" /\ reqs[r2].kind = "upsert"
        /\ reqs[r1].email = "c@x" /\ reqs[r2].email = "c@x"
        /\ reqs[r1].name # reqs[r2].name
        /\ reqs[r1].resp.status = 200 /\ reqs[r2].resp.status = 200
        /\ reqs[r1].resp.body.text[1] = reqs[r1].name
        /\ reqs[r2].resp.body.text[1] = reqs[r2].name
        /\ reqs[r1].resp.body.data = reqs[r2].resp.body.data
        /\ Cardinality({c \in DOMAIN customers : customers[c].email = "c@x"}) = 1
        /\ Len(customers) = 3
        /\ customers[3].points = 0
        /\ customers[3].name \in {reqs[r1].name, reqs[r2].name}

(* C10: customer_created only on the create branch.  The seeded customers   *)
(* exist before any upsert, so no customer_created Delivery row refers to   *)
(* them, and a webhook gets at most one customer_created row per customer.  *)
CustomerCreatedOnlyOnCreate ==
    \A i \in DOMAIN deliveries :
        deliveries[i].event = "customer_created"
        => /\ deliveries[i].ref > 2
           /\ \A j \in DOMAIN deliveries :
                 ( /\ j # i
                   /\ deliveries[j].event = "customer_created"
                   /\ deliveries[j].webhookId = deliveries[i].webhookId )
                 => deliveries[j].ref # deliveries[i].ref

-----------------------------------------------------------------------------
(* Properties of the delivery worker *)

Down(d) == ~webhooks[deliveries[d].webhookId].up

InBatch(w, d) == \E k \in DOMAIN workers[w].batch : workers[w].batch[k].id = d

(* C8: delivery ceiling, with one worker invocation at a time.  For a       *)
(* delivery whose endpoint never answers 2xx: a sweep selects it exactly    *)
(* when it is pending (and never once it has failed), it is pending when it *)
(* is POSTed, each POST adds one to attempts, and it is failed exactly when *)
(* attempts is 5, which is never exceeded.                                  *)
DeliveryCeiling ==
    [][\A d \in DOMAIN deliveries :
         Down(d) =>
           /\ (workers[1].pc = "idle" /\ workers'[1].pc = "post")
              => /\ (\E k \in DOMAIN workers'[1].batch : workers'[1].batch[k].id = d)
                       <=> deliveries[d].status = "pending"
                 /\ Cardinality({k \in DOMAIN workers'[1].batch :
                                    workers'[1].batch[k].id = d}) <= 1
           /\ (workers[1].pc = "post" /\ Head(workers[1].batch).id = d)
              => /\ deliveries[d].status = "pending"
                 /\ deliveries[d].attempts < 5
                 /\ workers'[1].outcome # "ok"
           /\ (workers[1].pc = "update" /\ Head(workers[1].batch).id = d)
              => /\ deliveries'[d].attempts = deliveries[d].attempts + 1
                 /\ deliveries'[d].status =
                       IF deliveries'[d].attempts = 5 THEN "failed" ELSE "pending"
           /\ ~(workers[1].pc = "update" /\ Head(workers[1].batch).id = d)
              => deliveries'[d] = deliveries[d]
           /\ deliveries'[d].attempts <= 5
           /\ (deliveries'[d].status = "failed") <=> (deliveries'[d].attempts = 5)
           /\ deliveries'[d].status # "success"
       ]_vars

(* A delivery to a dead endpoint has failed after 5 attempts, and a later   *)
(* sweep has selected other rows without it.                                *)
FailedAfterFive ==
    \E d \in DOMAIN deliveries :
        /\ Down(d)
        /\ deliveries[d].status = "failed"
        /\ deliveries[d].attempts = 5
        /\ workers[1].pc = "post"
        /\ Len(workers[1].batch) = 1
        /\ workers[1].batch[1].attempts = 2
        /\ ~InBatch(1, d)

(* C9: terminal delivery states are absorbing.  Once a Delivery row is      *)
(* success or failed, no step changes its status or attempts, also when     *)
(* worker invocations overlap.                                              *)
TerminalAbsorbing ==
    [][\A d \in DOMAIN deliveries :
         deliveries[d].status \in {"success", "failed"}
         => /\ deliveries'[d].status = deliveries[d].status
            /\ deliveries'[d].attempts = deliveries[d].attempts
      ]_vars

-----------------------------------------------------------------------------
(* Specification of the transaction-create endpoint used by two tenants    *)
(* that present the same Idempotency-Key.                                  *)

TenantPayloads ==
    { Payload(1, "", 250, 0, "", ""),
      Payload(2, "", 100, 0, "", "") }

InitTenants == InitWith(0, AllHooks)

NextTenants ==
    \/ \E r \in Reqs, k \in {"key1", "key2"}, p \in TenantPayloads :
          Receive(r, "tx", k, "K", p)
    \/ \E r \in Reqs : Check(r)
    \/ \E r \in Reqs : TxLookup(r)
    \/ \E r \in Reqs : TxCommit(r)
    \/ \E r \in Reqs : TxEmit(r)
    \/ \E r \in Reqs : Store(r)
    \/ Tick

SpecTenants == InitTenants /\ [][NextTenants]_vars

(* C11: idempotency records are scoped per tenant.  A request of tenant T2 *)
(* with key K is short-circuited at its idempotency check only by a record *)
(* stored for (K, T2), whose response it then returns: with records for K  *)
(* of other tenants only, it goes on to execute.  So the customer named in *)
(* a 201 response is always a customer of the tenant that receives it.     *)
TenantScopedRecords ==
    [][\A r \in Reqs :
         LET q == reqs[r]
             own == {rec \in idem : rec.key = q.key /\ rec.businessId = q.biz}
         IN (q.pc = "check" /\ reqs'[r].pc # "check")
            => /\ own = {} => reqs'[r].pc = "lookup"
               /\ reqs'[r].pc = "done"
                  => \E rec \in own : reqs'[r].resp = ParseResponse(rec.response)
               /\ \A r1 \in Reqs :
                     (reqs'[r1].pc = "done" /\ reqs'[r1].resp.status = 201)
                     => customers[reqs'[r1].resp.body.data[2]].businessId
                           = reqs'[r1].biz
       ]_vars

(* Tenant 1 has stored its response under K; tenant 2, whose one request  *)
(* arrived later, has presented K, passed the idempotency check while      *)
(* that record was live and executed its own transaction.                  *)
SameKeyTwoTenants ==
    \E r1, r2 \in Reqs :
        /\ reqs[r1].pc = "done" /\ reqs[r1].biz = 1 /\ reqs[r1].key = "K"
        /\ reqs[r1].resp.status = 201 /\ reqs[r1].result = 1
        /\ Cardinality({r \in Reqs : reqs[r].apiKey = "key2"}) = 1
        /\ reqs[r2].apiKey = "key2" /\ reqs[r2].key = "K"
        /\ apiKeys["key2"].lastUsedAt > reqs[r1].at
        /\ \E rec \in idem :
              rec.key = "K" /\ rec.businessId = 1 /\ rec.expiresAt > now
        /\ reqs[r2].pc = "emit" /\ reqs[r2].result = 2
        /\ reqs[r2].resp.body.data[2] = 2

-----------------------------------------------------------------------------
(* Storage failures.  Every awaited prisma call can throw.  A throw inside *)
(* checkIdempotency, storeIdempotentResponse or enqueueWebhook is caught   *)
(* there and logged; any other throw reaches the handler's catch block,    *)
(* which answers 500.  A throw inside prisma.$transaction rolls the unit   *)
(* back.                                                                   *)

(* checkIdempotency: findFirst throws, null is returned. *)
CheckThrows(r) ==
    /\ reqs[r].pc = "check"
    /\ reqs[r].key # ""
    /\ reqs' = [reqs EXCEPT ![r].pc = "lookup"]
    /\ UNCHANGED <<now, static, db, workers>>

(* The body is valid, so the handler queries the storage. *)
ValidBody(q) ==
    IF q.kind = "tx" THEN q.amount > 0 /\ (q.custId # 0 \/ q.email # "")
    ELSE IF q.kind = "redeem" THEN q.rewardId # 0 /\ (q.custId # 0 \/ q.email # "")
    ELSE q.email # "" /\ q.name # ""

(* A lookup that answers 500 and caches that answer under the key. *)
LookupThrowsCached(r) ==
    /\ reqs[r].pc = "lookup"
    /\ ValidBody(reqs[r])
    /\ LET q == reqs[r]
           response == [status |-> 500, body |-> FailureBody(q.kind, "find")]
       IN /\ reqs' = [reqs EXCEPT ![r] = Respond(q, response.status, response.body)]
          /\ idem' = IF q.key # ""
                     THEN storeIdempotentResponse(q.key, q.biz, response)
                     ELSE idem
    /\ UNCHANGED <<now, static, customers, transactions, nextTxId, redemptions,
                   nextRedId, deliveries, workers>>

(* The customer or reward lookup (or the upsert itself) throws: 500. *)
LookupThrows(r) ==
    /\ reqs[r].pc = "lookup"
    /\ ValidBody(reqs[r])
    /\ reqs' = [reqs EXCEPT ![r] =
                  Respond(reqs[r], 500, FailureBody(reqs[r].kind, "find"))]
    /\ UNCHANGED <<now, static, db, workers>>

(* A unit that is not atomic: the row of a transaction-create stays when   *)
(* the balance update throws.                                              *)
CommitThrowsPartial(r) ==
    /\ reqs[r].pc = "commit"
    /\ LET q == reqs[r]
       IN /\ reqs' = [reqs EXCEPT ![r] =
                        Respond(q, 500, FailureBody(q.kind, "$transaction"))]
          /\ transactions' = IF q.kind = "tx"
                             THEN transactions \cup
                                    {[id |-> nextTxId, customerId |-> q.cust,
                                      businessId |-> q.biz, amount |-> q.amount]}
                             ELSE transactions
          /\ nextTxId' = IF q.kind = "tx" THEN nextTxId + 1 ELSE nextTxId
    /\ UNCHANGED <<now, static, customers, redemptions, nextRedId, deliveries,
                   idem, workers>>

(* An aborted unit whose handler has already enqueued the event. *)
CommitThrowsEmits(r) ==
    /\ reqs[r].pc = "commit"
    /\ reqs' = [reqs EXCEPT ![r] =
                  Respond(reqs[r], 500, FailureBody(reqs[r].kind, "$transaction"))]
    /\ deliveries' = enqueueWebhook(deliveries, reqs[r].biz,
                                    IF reqs[r].kind = "tx" THEN "transaction_created"
                                    ELSE "redemption_completed",
                                    IF reqs[r].kind = "tx" THEN nextTxId ELSE nextRedId)
    /\ UNCHANGED <<now, static, customers, transactions, nextTxId, redemptions,
                   nextRedId, idem, workers>>

(* prisma.$transaction throws, at the insert or at the balance update: the *)
(* unit is rolled back and the handler answers 500.                        *)
CommitThrows(r) ==
    /\ reqs[r].pc = "commit"
    /\ reqs' = [reqs EXCEPT ![r] =
                  Respond(reqs[r], 500, FailureBody(reqs[r].kind, "$transaction"))]
    /\ UNCHANGED <<now, static, db, workers>>

(* enqueueWebhook when a storage call throws: the findMany, or the create  *)
(* of a row after the rows before it were created.  The rows afterwards.   *)
enqueueWebhookThrows(dels, businessId, event, ref) ==
    LET rows == enqueueWebhook(<<>>, businessId, event, ref)
        last == IF rows = <<>> THEN 0 ELSE Len(rows) - 1
    IN {dels \o SubSeq(rows, 1, k) : k \in 0..last}

enqueueOutcomes(throws, dels, businessId, event, ref) ==
    IF throws
    THEN enqueueWebhookThrows(dels, businessId, event, ref)
    ELSE {enqueueWebhook(dels, businessId, event, ref)}

(* An emission whose failure reaches the handler's catch block. *)
TxEmitPropagates(r) ==
    /\ reqs[r].pc = "emit"
    /\ reqs[r].kind = "tx"
    /\ reqs' = [reqs EXCEPT ![r] =
                  Respond(reqs[r], 500, FailureBody(reqs[r].kind, "webhook"))]
    /\ UNCHANGED <<now, static, db, workers>>

(* The transaction handler's two enqueueWebhook calls, one of which at     *)
(* least fails.                                                            *)
TxEmitThrows(r) ==
    /\ reqs[r].pc = "emit"
    /\ reqs[r].kind = "tx"
    /\ LET q == reqs[r]
       IN \E t1, t2 \in BOOLEAN :
            /\ t1 \/ t2
            /\ \E d1 \in enqueueOutcomes(t1, deliveries, q.biz,
                                         "transaction_created", q.result) :
                  deliveries' \in enqueueOutcomes(t2, d1, q.biz,
                                                  "points_awarded", q.cust)
    /\ reqs' = [reqs EXCEPT ![r].pc = "store"]
    /\ UNCHANGED <<now, static, customers, transactions, nextTxId, redemptions,
                   nextRedId, idem, workers>>

RedeemEmitThrows(r) ==
    /\ reqs[r].pc = "emit"
    /\ reqs[r].kind = "redeem"
    /\ deliveries' \in enqueueWebhookThrows(deliveries, reqs[r].biz,
                                            "redemption_completed", reqs[r].result)
    /\ reqs' = [reqs EXCEPT ![r].pc = "store"]
    /\ UNCHANGED <<now, static, customers, transactions, nextTxId, redemptions,
                   nextRedId, idem, workers>>

UpsertEmitThrows(r) ==
    /\ reqs[r].pc = "emit"
    /\ reqs[r].kind = "upsert"
    /\ deliveries' \in enqueueWebhookThrows(deliveries, reqs[r].biz,
                                            "customer_created", reqs[r].cust)
    /\ reqs' = [reqs EXCEPT ![r].pc = "store"]
    /\ UNCHANGED <<now, static, customers, transactions, nextTxId, redemptions,
                   nextRedId, idem, workers>>

(* A store whose failure reaches the handler's catch block. *)
StoreThrowsPropagates(r) ==
    /\ reqs[r].pc = "store"
    /\ reqs[r].key # ""
    /\ reqs' = [reqs EXCEPT ![r] =
                  Respond(reqs[r], 500, FailureBody(reqs[r].kind, "idempotencyKey"))]
    /\ UNCHANGED <<now, static, db, workers>>

(* storeIdempotentResponse: the create throws, nothing is stored and the   *)
(* handler returns its response.                                           *)
StoreThrows(r) ==
    /\ reqs[r].pc = "store"
    /\ reqs[r].key # ""
    /\ reqs' = [reqs EXCEPT ![r] =
                  Respond(reqs[r], SuccessStatus(reqs[r].kind), reqs[r].resp.body)]
    /\ UNCHANGED <<now, static, db, workers>>

-----------------------------------------------------------------------------
(* Specification of the transaction-create and redemption-create endpoints *)
(* of tenant 1 under storage failures, every request carrying the key K.   *)
(* The clock advances once, so that an earlier request is told from a      *)
(* later one.                                                              *)

TxFaultPayloads ==
    { Payload(1, "", 250, 0, "", ""),
      Payload(1, "", -5, 0, "", ""),
      Payload(0, "a@x", 0, 0, "", ""),
      Payload(2, "", 250, 0, "", "") }

RedeemFaultPayloads ==
    { Payload(1, "", 0, 1, "", ""),
      Payload(1, "", 0, 3, "", "") }

InitFaults == InitWith(2, TxHooks)

NextFaults ==
    \/ \E r \in Reqs, p \in TxFaultPayloads : Receive(r, "tx", "key1", "K", p)
    \/ \E r \in Reqs, p \in RedeemFaultPayloads : Receive(r, "redeem", "key1", "K", p)
    \/ \E r \in Reqs, p \in TxFaultPayloads, call \in {"findUnique", "update"} :
          ReceiveThrows(r, "tx", "key1", "K", p, call)
    \/ \E r \in Reqs : Check(r)
    \/ \E r \in Reqs : CheckThrows(r)
    \/ \E r \in Reqs : TxLookup(r)
    \/ \E r \in Reqs : RedeemLookup(r)
    \/ \E r \in Reqs : LookupThrows(r)
    \/ \E r \in Reqs : TxCommit(r)
    \/ \E r \in Reqs : RedeemCommit(r)
    \/ \E r \in Reqs : CommitThrows(r)
    \/ \E r \in Reqs : TxEmit(r)
    \/ \E r \in Reqs : TxEmitThrows(r)
    \/ \E r \in Reqs : RedeemEmit(r)
    \/ \E r \in Reqs : RedeemEmitThrows(r)
    \/ \E r \in Reqs : Store(r)
    \/ \E r \in Reqs : StoreThrows(r)
    \/ (now = 0 /\ Tick)

SpecFaults == InitFaults /\ [][NextFaults]_vars

ErrorStatuses == {400, 401, 404, 500}

(* C12: a record is stored only after a final successful response.  Every  *)
(* record holds a 201 (or 200) response without an error; a keyed request  *)
(* that ends in 400, 401, 404 or 500 does so in a step that leaves the     *)
(* records unchanged, and never by replaying a record, so a later request  *)
(* with its key finds no record of it and is executed as new.              *)
StoredOnlyAfterSuccess ==
    [][/\ \A rec \in idem' :
            /\ ParseResponse(rec.response).status \in {200, 201}
            /\ ParseResponse(rec.response).body.error = ""
       /\ \A r \in Reqs :
            ( /\ reqs[r].pc # "done"
              /\ reqs'[r].pc = "done"
              /\ reqs'[r].key # ""
              /\ reqs'[r].resp.status \in ErrorStatuses )
            => /\ idem' = idem
               /\ reqs[r].pc # "check"
      ]_vars

(* A keyed request ended in 404 and left no record; a request that arrived *)
(* later with the same key was executed as new, created the first row and  *)
(* stored the first record.                                                *)
ErrorThenExecuted ==
    \E r1, r2 \in Reqs :
        /\ reqs[r1].pc = "done" /\ reqs[r1].key = "K"
        /\ reqs[r1].resp.status = 404
        /\ reqs[r1].at = 0
        /\ apiKeys["key1"].lastUsedAt > reqs[r1].at
        /\ \A r \in Reqs \ {r1, r2} : reqs[r].pc = "idle"
        /\ reqs[r2].pc = "done" /\ reqs[r2].key = "K"
        /\ reqs[r2].resp.status = 201
        /\ reqs[r2].result = 1
        /\ idem = {[key |-> "K", businessId |-> 1,
                    response |-> Stringify(reqs[r2].resp),
                    expiresAt |-> reqs[r2].at + TTLHours]}

(* C13: idempotency-store failures never fail the request.  A request that *)
(* leaves its idempotency check either replays a live record of its key   *)
(* and tenant or goes on to execute, which is what it does when the lookup *)
(* throws; it is never answered with an error there.  A request that       *)
(* leaves its store step returns its success status and the body built at  *)
(* the commit, whether the record was written, the write threw or the      *)
(* (key, businessId) pair was taken; the row it created and the balances   *)
(* stay as committed.                                                      *)
IdempotencyFailuresSwallowed ==
    [][\A r \in Reqs :
         LET q == reqs[r]
         IN /\ (q.pc = "check" /\ reqs'[r].pc # "check")
               => /\ \/ reqs'[r].pc = "lookup"
                     \/ /\ reqs'[r].pc = "done"
                        /\ \E rec \in IdemHits(q.key, q.biz) :
                              reqs'[r].resp = ParseResponse(rec.response)
                  /\ UNCHANGED db
            /\ (q.pc = "store" /\ reqs'[r].pc # "store")
               => /\ reqs'[r].pc = "done"
                  /\ reqs'[r].resp.status = SuccessStatus(q.kind)
                  /\ reqs'[r].resp.body = q.resp.body
                  /\ reqs'[r].result = q.result
                  /\ UNCHANGED <<customers, transactions, redemptions, deliveries>>
                  /\ q.kind = "tx" => \E t \in transactions' : t.id = q.result
                  /\ q.kind = "redeem" => \E x \in redemptions' : x.id = q.result
                  /\ idem' \in {idem,
                                idem \cup {[key |-> q.key, businessId |-> q.biz,
                                            response |-> Stringify(reqs'[r].resp),
                                            expiresAt |-> now + TTLHours]}}
                  /\ ~IdemUnique(q.key, q.biz) => idem' = idem
       ]_vars

(* The first request stored its record; the second arrived later, while    *)
(* the record was live, yet executed (its lookup threw), created a second  *)
(* row and returned 201 although its own record could not be written.      *)
ExecutedDespiteFailures ==
    \E r1, r2 \in Reqs :
        /\ reqs[r1].pc = "done" /\ reqs[r1].kind = "tx"
        /\ reqs[r1].resp.status = 201 /\ reqs[r1].result = 1
        /\ reqs[r1].at = 0
        /\ apiKeys["key1"].lastUsedAt > reqs[r1].at
        /\ \A r \in Reqs \ {r1, r2} : reqs[r].pc = "idle"
        /\ idem = {[key |-> "K", businessId |-> 1,
                    response |-> Stringify(reqs[r1].resp),
                    expiresAt |-> reqs[r1].at + TTLHours]}
        /\ reqs[r2].pc = "done" /\ reqs[r2].kind = "tx"
        /\ reqs[r2].resp.status = 201 /\ reqs[r2].result = 2
        /\ Cardinality(transactions) = 2

-----------------------------------------------------------------------------
(* Specification of the three integration POST handlers of tenant 1, sent  *)
(* without an Idempotency-Key, with failures of the webhook enqueue.       *)

InitEmit == InitWith(3, AllHooks)

NextEmit ==
    \/ \E r \in Reqs : Receive(r, "tx", "key1", "", Payload(1, "", 250, 0, "", ""))
    \/ \E r \in Reqs : Receive(r, "redeem", "key1", "", Payload(1, "", 0, 1, "", ""))
    \/ \E r \in Reqs : Receive(r, "upsert", "key1", "", Payload(0, "c@x", 0, 0, "Cy", ""))
    \/ \E r \in Reqs : Check(r)
    \/ \E r \in Reqs : TxLookup(r)
    \/ \E r \in Reqs : TxCommit(r)
    \/ \E r \in Reqs : TxEmit(r)
    \/ \E r \in Reqs : TxEmitThrows(r)
    \/ \E r \in Reqs : RedeemLookup(r)
    \/ \E r \in Reqs : RedeemCommit(r)
    \/ \E r \in Reqs : RedeemEmit(r)
    \/ \E r \in Reqs : RedeemEmitThrows(r)
    \/ \E r \in Reqs : UpsertExec(r)
    \/ \E r \in Reqs : UpsertEmit(r)
    \/ \E r \in Reqs : UpsertEmitThrows(r)
    \/ \E r \in Reqs : Store(r)

SpecEmit == InitEmit /\ [][NextEmit]_vars

(* The row a handler committed is in the database. *)
Committed(q) ==
    IF q.kind = "tx" THEN \E t \in transactions : t.id = q.result
    ELSE IF q.kind = "redeem" THEN \E x \in redemptions : x.id = q.result
    ELSE q.result \in DOMAIN customers

(* C14: a failure while enqueuing never propagates.  The emit step of a    *)
(* handler, whether its enqueue succeeds or a webhook lookup or Delivery   *)
(* insert throws, leaves the committed row and every balance as they are,  *)
(* keeps the response built at the commit and moves on to the store step,  *)
(* adding pending Delivery rows only; every request that committed a row   *)
(* then ends with its success status, and its row stays committed.         *)
EnqueueFailureSwallowed ==
    [][\A r \in Reqs :
         LET q == reqs[r]
         IN /\ (q.pc = "emit" /\ reqs'[r] # q)
               => /\ reqs'[r] = [q EXCEPT !.pc = "store"]
                  /\ UNCHANGED <<customers, transactions, redemptions, idem>>
                  /\ Len(deliveries') >= Len(deliveries)
                  /\ SubSeq(deliveries', 1, Len(deliveries)) = deliveries
                  /\ \A i \in (Len(deliveries) + 1)..Len(deliveries') :
                        deliveries'[i].status = "pending"
            /\ (q.result # 0 /\ q.pc # "done" /\ reqs'[r].pc = "done")
               => /\ q.pc = "store"
                  /\ reqs'[r].resp.status = SuccessStatus(q.kind)
                  /\ reqs'[r].resp.body = q.resp.body
                  /\ reqs'[r].resp.body.error = ""
            /\ (q.result # 0 /\ q.pc \in {"emit", "store", "done"})
               => Committed(q)
       ]_vars

(* A transaction and a redemption have both returned 201 with their rows   *)
(* committed, although both enqueues of the first failed and the second    *)
(* created one Delivery row of its two.                                    *)
AnsweredWithoutDeliveries ==
    \E r1, r2 \in Reqs :
        /\ reqs[r1].pc = "done" /\ reqs[r1].kind = "tx"
        /\ reqs[r1].resp.status = 201
        /\ \E t \in transactions : t.id = reqs[r1].result
        /\ reqs[r2].pc = "done" /\ reqs[r2].kind = "redeem"
        /\ reqs[r2].resp.status = 201
        /\ \E x \in redemptions : x.id = reqs[r2].result
        /\ \A r \in Reqs \ {r1, r2} : reqs[r].pc = "idle"
        /\ customers[1].points = 3 + calculatePoints(250) - rewards[1].pointsRequired
        /\ Len(deliveries) = 1
        /\ deliveries[1].event = "redemption_completed"

-----------------------------------------------------------------------------
(* Specification of the API-key gate of the transaction-create endpoint:   *)
(* requests without a key, with an unknown key, with the inactive key and  *)
(* with the active key of tenant 1, all carrying the Idempotency-Key K.    *)
(* The lookup of the key works; the lastUsedAt update may throw.           *)

GateKeys == {"", "nokey", "keyOff", "key1"}

GatePayload == Payload(1, "", 250, 0, "", "")

InitGate == InitWith(0, TxHooks)

NextGate ==
    \/ \E r \in Reqs, k \in GateKeys : Receive(r, "tx", k, "K", GatePayload)
    \/ \E r \in Reqs, k \in GateKeys : ReceiveThrows(r, "tx", k, "K", GatePayload, "update")
    \/ \E r \in Reqs : Check(r)
    \/ \E r \in Reqs : TxLookup(r)
    \/ \E r \in Reqs : TxCommit(r)
    \/ \E r \in Reqs : TxEmit(r)
    \/ \E r \in Reqs : Store(r)
    \/ (now = 0 /\ Tick)

SpecGate == InitGate /\ [][NextGate]_vars

(* C15: API-key gate.  A request that arrives with no x-api-key header,    *)
(* with a key that matches no stored key or with a key whose isActive is   *)
(* false is answered 401 on arrival, before the idempotency check (also    *)
(* when a live record exists for its Idempotency-Key), and changes no      *)
(* customer, transaction, redemption, idempotency or delivery state.       *)
ApiKeyGate ==
    [][\A r \in Reqs :
         LET k == reqs'[r].apiKey
         IN ( /\ reqs[r].pc = "idle"
              /\ reqs'[r].pc # "idle"
              /\ \/ k = ""
                 \/ k \notin DOMAIN apiKeys
                 \/ ~apiKeys[k].isActive )
            => /\ reqs'[r].pc = "done"
               /\ reqs'[r].resp.status = 401
               /\ reqs'[r].resp.body.error =
                     IF k = "" THEN "Missing x-api-key header"
                     ELSE IF k \notin DOMAIN apiKeys THEN "Invalid API key"
                     ELSE "API key is inactive"
               /\ reqs'[r].resp.body.data = <<>>
               /\ reqs'[r].biz = 0
               /\ reqs'[r].result = 0
               /\ UNCHANGED <<db, apiKeys>>
       ]_vars

(* Tenant 1 has a live record for K with a 201 response; a later request   *)
(* with K and the inactive key of tenant 1 was answered 401, not replayed. *)
InactiveKeyNotReplayed ==
    \E r1, r2 \in Reqs :
        /\ reqs[r1].pc = "done" /\ reqs[r1].apiKey = "key1"
        /\ reqs[r1].resp.status = 201 /\ reqs[r1].at = 0
        /\ idem = {[key |-> "K", businessId |-> 1,
                    response |-> Stringify(reqs[r1].resp),
                    expiresAt |-> TTLHours]}
        /\ now < TTLHours
        /\ reqs[r2].pc = "done" /\ reqs[r2].apiKey = "keyOff"
        /\ apiKeys["keyOff"].businessId = 1
        /\ reqs[r2].key = "K"
        /\ reqs[r2].at > reqs[r1].at
        /\ reqs[r2].resp.status = 401
        /\ Cardinality(transactions) = 1

(* C16: recording lastUsedAt is best-effort.  A request that presents a    *)
(* key that exists and is active is authenticated with the key's tenant    *)
(* and goes on to its idempotency check, also when the lastUsedAt update   *)
(* fails; it is not answered 401.                                          *)
LastUsedAtBestEffort ==
    [][\A r \in Reqs :
         LET k == reqs'[r].apiKey
         IN ( /\ reqs[r].pc = "idle"
              /\ reqs'[r].pc # "idle"
              /\ k \in DOMAIN apiKeys
              /\ apiKeys[k].isActive )
            => /\ reqs'[r].pc = "check"
               /\ reqs'[r].biz = apiKeys[k].businessId
       ]_vars

-----------------------------------------------------------------------------
(* Properties of the transaction-create endpoint under storage failures *)

(* C17: amount <= 0 is refused.  A transaction-create request that reaches *)
(* the body validation (it was not answered from a cached response) with   *)
(* amount <= 0 is answered 400 there, without a row id, and the step       *)
(* changes no Transaction row, no balance, no Delivery record and no       *)
(* idempotency record.                                                     *)
NonPositiveAmountRefused ==
    [][\A r \in Reqs :
         LET q == reqs[r]
         IN (q.kind = "tx" /\ q.pc = "lookup" /\ q.amount <= 0 /\ reqs'[r] # q)
            => /\ reqs'[r].pc = "done"
               /\ reqs'[r].resp.status = 400
               /\ reqs'[r].resp.body.error # ""
               /\ reqs'[r].result = 0
               /\ UNCHANGED <<transactions, nextTxId, customers, deliveries, idem>>
       ]_vars

(* A request with amount -5 and a request with amount 0 have both been     *)
(* answered 400; the database is as seeded.                                *)
NegativeAndZeroRefused ==
    \E r1, r2 \in Reqs :
        /\ reqs[r1].pc = "done" /\ reqs[r1].kind = "tx" /\ reqs[r1].amount < 0
        /\ reqs[r1].resp.status = 400
        /\ reqs[r1].resp.body.error = "Amount must be greater than 0"
        /\ reqs[r2].pc = "done" /\ reqs[r2].kind = "tx" /\ reqs[r2].amount = 0
        /\ reqs[r2].resp.status = 400
        /\ transactions = {}
        /\ nextTxId = 1
        /\ customers[1].points = 2
        /\ deliveries = <<>>
        /\ idem = {}


(* The points a set of Redemption rows has taken. *)
RECURSIVE SumRequired(_)
SumRequired(rows) ==
    IF rows = {}
    THEN 0
    ELSE LET x == CHOOSE x \in rows : TRUE
         IN rewards[x.rewardId].pointsRequired + SumRequired(rows \ {x})

(* Every balance is the seeded balance plus the points of the customer's   *)
(* Transaction rows minus the points of the customer's Redemption rows.    *)
LedgerOf(seeded, custs, txs, reds) ==
    \A c \in DOMAIN custs :
        custs[c].points =
            seeded + SumPoints({t \in txs : t.customerId = c})
                   - SumRequired({x \in reds : x.customerId = c})

(* C18: transaction-create is atomic over row and balance.  After every    *)
(* step, a storage failure inside the unit included, each balance is the   *)
(* seeded balance (2) plus floor(amount/100) for each Transaction row of   *)
(* the customer (minus the customer's redemptions).  The unit either       *)
(* inserts one row and adds floor(amount/100) to the balance, returning    *)
(* pointsAwarded = floor(amount/100) and newBalance = the balance before   *)
(* the unit plus pointsAwarded, or fails with 500 and changes neither.     *)
TransactionCreateAtomic ==
    [][/\ LedgerOf(2, customers', transactions', redemptions')
       /\ \A r \in Reqs :
            LET q == reqs[r]
                before == customers[q.cust].points
            IN (q.kind = "tx" /\ q.pc = "commit" /\ reqs'[r] # q)
               => \/ /\ reqs'[r].pc = "emit"
                     /\ transactions' = transactions \cup
                           {[id |-> reqs'[r].result, customerId |-> q.cust,
                             businessId |-> q.biz, amount |-> q.amount]}
                     /\ Cardinality(transactions') = Cardinality(transactions) + 1
                     /\ customers' = [customers EXCEPT
                                        ![q.cust].points = before + q.amount \div 100]
                     /\ reqs'[r].resp.body.data[4] = q.amount \div 100
                     /\ reqs'[r].resp.body.data[5] =
                           before + reqs'[r].resp.body.data[4]
                  \/ /\ reqs'[r].pc = "done"
                     /\ reqs'[r].resp.status = 500
                     /\ reqs'[r].result = 0
                     /\ UNCHANGED <<transactions, customers>>
      ]_vars

(* The unit of one request failed and was rolled back; the unit of the     *)
(* other committed the only row and its 2 points.                          *)
RolledBackAndCommitted ==
    \E r1, r2 \in Reqs :
        /\ reqs[r1].pc = "done" /\ reqs[r1].kind = "tx"
        /\ reqs[r1].resp.status = 500
        /\ reqs[r1].resp.body.text = <<"$transaction">>
        /\ reqs[r1].amount = 250
        /\ reqs[r2].pc = "done" /\ reqs[r2].kind = "tx"
        /\ reqs[r2].resp.status = 201
        /\ reqs[r2].resp.body.data = <<1, 1, 250, 2, 4>>
        /\ transactions = {[id |-> 1, customerId |-> 1, businessId |-> 1,
                            amount |-> 250]}
        /\ customers[1].points = 4

-----------------------------------------------------------------------------
(* Specification of the point ledger: one transaction-create request of    *)
(* tenant 1 for customer 1, its amount drawn from 1..MaxAmount and the     *)
(* amounts of the documentation.                                           *)

Amounts == 1..MaxAmount \cup {5000, 15750}

InitPoints == InitWith(0, AllHooks)

NextPoints ==
    \/ \E a \in Amounts : Receive(1, "tx", "key1", "", Payload(1, "", a, 0, "", ""))
    \/ Check(1)
    \/ TxLookup(1)
    \/ TxCommit(1)
    \/ TxEmit(1)
    \/ Store(1)

SpecPoints == InitPoints /\ [][NextPoints]_vars

(* C19: point ledger truncation.  The points computed for a positive       *)
(* integer amount A are the unique integer p with 100*p <= A < 100*(p+1):  *)
(* 99 gives 0, 100 gives 1, 5000 gives 50 and 15750 gives 157.  These are  *)
(* the points the handler awards and adds to the balance.                  *)
LedgerTruncation ==
    [][LET q == reqs[1]
           A == q.amount
           p == reqs'[1].awarded
       IN /\ (q.pc = "lookup" /\ reqs'[1].pc = "commit")
             => /\ A > 0
                /\ p = calculatePoints(A)
                /\ 100 * p <= A /\ A < 100 * (p + 1)
                /\ \A p2 \in 0..A : (100 * p2 <= A /\ A < 100 * (p2 + 1)) => p2 = p
                /\ A = 99 => p = 0
                /\ A = 100 => p = 1
                /\ A = 5000 => p = 50
                /\ A = 15750 => p = 157
          /\ (q.pc = "commit" /\ reqs'[1].pc = "emit")
             => /\ reqs'[1].resp.body.data[4] = q.awarded
                /\ customers'[1].points = customers[1].points + q.awarded
      ]_vars

(* The request of amount 15750 has been answered: 157 points awarded. *)
Awarded157 ==
    /\ reqs[1].pc = "done"
    /\ reqs[1].amount = 15750
    /\ reqs[1].resp.status = 201
    /\ reqs[1].resp.body.data[4] = 157
    /\ customers[1].points = 157

-----------------------------------------------------------------------------
(* Dashboard reward deletion: DELETE /api/rewards?id= reads the reward     *)
(* with its redemptions and then deletes it; DELETE /api/rewards/[id]      *)
(* deletes the reward of the session's business in one deleteMany.  A      *)
(* request slot holds the handler's state.                                 *)

RemoveReward(id) == [i \in DOMAIN rewards \ {id} |-> rewards[i]]

DeleteRequest(kind, businessId, id) ==
    [IdleReq EXCEPT !.kind = kind, !.biz = businessId, !.rewardId = id]

DeletedBody == DataBody(<<>>, <<"Reward deleted successfully">>)

(* DELETE /api/rewards?id=: findUnique with the redemptions included. *)
RewardDeleteRead(r, id) ==
    /\ reqs[r].pc = "idle"
    /\ \A r0 \in Reqs : r0 < r => reqs[r0].pc # "idle"
    /\ LET q == DeleteRequest("rewardDelete", 0, id)
       IN reqs' = [reqs EXCEPT ![r] =
            IF id = 0
            THEN Respond(q, 400, ErrorBody("Reward ID is required"))
            ELSE IF ~RewardExists(id)
            THEN Respond(q, 404, ErrorBody("Reward not found"))
            ELSE IF \E x \in redemptions : x.rewardId = id
            THEN Respond(q, 400,
                         ErrorBody("Cannot delete reward that has been redeemed"))
            ELSE [q EXCEPT !.pc = "delete"]]
    /\ UNCHANGED <<now, static, db, workers>>

(* DELETE /api/rewards?id=: prisma.reward.delete, which throws when the    *)
(* row is gone or still referenced; the catch block answers 500.           *)
RewardDeleteExec(r) ==
    /\ reqs[r].pc = "delete"
    /\ LET q == reqs[r]
       IN IF RewardExists(q.rewardId) /\ ~RewardReferenced(q.rewardId)
          THEN /\ rewards' = RemoveReward(q.rewardId)
               /\ reqs' = [reqs EXCEPT ![r] = Respond(q, 200, DeletedBody)]
          ELSE /\ rewards' = rewards
               /\ reqs' = [reqs EXCEPT ![r] =
                             Respond(q, 500, ErrorBody("Failed to delete reward"))]
    /\ UNCHANGED <<now, apiKeys, webhooks, db, workers>>

(* DELETE /api/rewards/[id]: deleteMany of the rows with this id and the   *)
(* session's business; it throws when a matched row is still referenced.   *)
RewardDeleteById(r, businessId, id) ==
    /\ reqs[r].pc = "idle"
    /\ \A r0 \in Reqs : r0 < r => reqs[r0].pc # "idle"
    /\ LET q == DeleteRequest("rewardDeleteById", businessId, id)
           count == IF RewardExists(id) /\ rewards[id].businessId = businessId
                    THEN 1 ELSE 0
       IN IF count = 0
          THEN /\ rewards' = rewards
               /\ reqs' = [reqs EXCEPT ![r] =
                             Respond(q, 404, ErrorBody("Reward not found"))]
          ELSE IF RewardReferenced(id)
          THEN /\ rewards' = rewards
               /\ reqs' = [reqs EXCEPT ![r] =
                             Respond(q, 500, ErrorBody("Failed to delete reward"))]
          ELSE /\ rewards' = RemoveReward(id)
               /\ reqs' = [reqs EXCEPT ![r] = Respond(q, 200, DeletedBody)]
    /\ UNCHANGED <<now, apiKeys, webhooks, db, workers>>

-----------------------------------------------------------------------------
(* Specification of reward deletion next to redemption-create. *)

RewardPayloads ==
    { Payload(1, "", 0, 1, "", ""),
      Payload(1, "", 0, 3, "", "") }

InitRewards == InitWith(3, AllHooks)

NextRewards ==
    \/ \E r \in Reqs, p \in RewardPayloads : Receive(r, "redeem", "key1", "", p)
    \/ \E r \in Reqs : Check(r)
    \/ \E r \in Reqs : RedeemLookup(r)
    \/ \E r \in Reqs : RedeemCommit(r)
    \/ \E r \in Reqs : RedeemEmit(r)
    \/ \E r \in Reqs : Store(r)
    \/ \E r \in Reqs, id \in 0..3 : RewardDeleteRead(r, id)
    \/ \E r \in Reqs : RewardDeleteExec(r)
    \/ \E r \in Reqs, b \in Businesses, id \in 1..3 : RewardDeleteById(r, b, id)

SpecRewards == InitRewards /\ [][NextRewards]_vars

(* C20: reward referential guard.  After every step every Redemption row   *)
(* references an existing Reward.  A reward that a redemption references   *)
(* is not deleted: no step removes or changes it or removes a redemption,  *)
(* and a delete request for it that finishes is rejected (400 or 500).     *)
RewardReferentialGuard ==
    [][/\ \A x \in redemptions' : x.rewardId \in DOMAIN rewards'
       /\ \A id \in DOMAIN rewards :
            (\E x \in redemptions : x.rewardId = id)
            => /\ id \in DOMAIN rewards'
               /\ rewards'[id] = rewards[id]
               /\ redemptions \subseteq redemptions'
               /\ \A r \in Reqs :
                    ( /\ reqs'[r].kind \in {"rewardDelete", "rewardDeleteById"}
                      /\ reqs'[r].rewardId = id
                      /\ reqs[r].pc # "done"
                      /\ reqs'[r].pc = "done"
                      /\ reqs'[r].biz \in {0, rewards[id].businessId} )
                    => reqs'[r].resp.status \in {400, 500}
      ]_vars

(* Reward 1 has been redeemed; a DELETE /api/rewards/1 of its business was *)
(* rejected and the reward and its redemption are still there.             *)
RedeemedRewardKept ==
    \E r1, r2 \in Reqs :
        /\ reqs[r1].pc = "done" /\ reqs[r1].kind = "redeem"
        /\ reqs[r1].resp.status = 201 /\ reqs[r1].rewardId = 1
        /\ reqs[r2].pc = "done" /\ reqs[r2].kind = "rewardDeleteById"
        /\ reqs[r2].rewardId = 1 /\ reqs[r2].biz = 1
        /\ reqs[r2].resp.status = 500
        /\ 1 \in DOMAIN rewards
        /\ redemptions = {[id |-> 1, customerId |-> 1, rewardId |-> 1]}

-----------------------------------------------------------------------------
(* Properties of the expiry of idempotency records *)

(* C21: expired records do not gate.  A keyed request that reaches its     *)
(* idempotency check when every record of its key and tenant has reached   *)
(* its expiresAt goes on to execute, whether the record is still stored or *)
(* not.  The sweep removes records only, each with expiresAt in the past,  *)
(* and so leaves the records a check can return as they are.               *)
ExpiredRecordsDoNotGate ==
    [][/\ \A r \in Reqs :
            LET q == reqs[r]
            IN ( /\ q.pc = "check"
                 /\ reqs'[r] # q
                 /\ q.key # ""
                 /\ \A rec \in idem :
                       (rec.key = q.key /\ rec.businessId = q.biz)
                       => rec.expiresAt <= now )
               => /\ reqs'[r] = [q EXCEPT !.pc = "lookup"]
                  /\ idem' = idem
       /\ \A rec \in idem \ idem' : rec.expiresAt < now
       /\ (idem' # idem /\ reqs' = reqs)
          => /\ idem' \subseteq idem
             /\ {rec \in idem' : rec.expiresAt > now}
                   = {rec \in idem : rec.expiresAt > now}
      ]_vars

(* The record stored at time 0 expired at 24 and was not swept; a request  *)
(* with the same key that arrived after that executed as new and created   *)
(* the second row.                                                         *)
ExecutedAfterExpiry ==
    \E r1, r2 \in Reqs :
        /\ reqs[r1].pc = "done" /\ reqs[r1].key = "K"
        /\ reqs[r1].resp.status = 201 /\ reqs[r1].result = 1
        /\ reqs[r1].at = 0
        /\ idem = {[key |-> "K", businessId |-> 1,
                    response |-> Stringify(reqs[r1].resp),
                    expiresAt |-> TTLHours]}
        /\ \A r \in Reqs \ {r1, r2} : reqs[r].pc = "idle"
        /\ apiKeys["key1"].lastUsedAt > TTLHours
        /\ reqs[r2].key = "K" /\ SamePost(reqs[r1], reqs[r2])
        /\ reqs[r2].pc = "done"
        /\ reqs[r2].resp.status = 201 /\ reqs[r2].result = 2
        /\ Cardinality(transactions) = 2

-----------------------------------------------------------------------------
(* Dashboard /api/transactions: PUT (edit).  The handler reads the row     *)
(* with findUnique and then, in a second awaited call, writes it: inside   *)
(* prisma.$transaction together with the increment of the balance when the *)
(* body carries an amount (not 0) other than the amount read, by a single  *)
(* update without any increment otherwise.  amount = 0 and customerId = 0  *)
(* stand for a body without the field; date and businessId are left out of *)
(* the body.                                                               *)

EditRequest(kind, id, amount, customerId, rewardId) ==
    [IdleReq EXCEPT !.kind = kind, !.id = id, !.amount = amount,
                    !.custId = customerId, !.rewardId = rewardId]

UpdatedBody(fields) == DataBody(fields, <<"Transaction updated successfully">>)

DashEditRead(r, id, amount, customerId) ==
    /\ reqs[r].pc = "idle"
    /\ \A r0 \in Reqs : r0 < r => reqs[r0].pc # "idle"
    /\ LET q == EditRequest("txEdit", id, amount, customerId, 0)
           found == {t \in transactions : t.id = id}
       IN reqs' = [reqs EXCEPT ![r] =
            IF id = 0
            THEN Respond(q, 400, ErrorBody("Transaction ID is required"))
            ELSE IF found = {}
            THEN Respond(q, 404, ErrorBody("Transaction not found"))
            ELSE LET existingTransaction == CHOOSE t \in found : TRUE
                 IN [q EXCEPT !.pc = "edit",
                              !.cust = existingTransaction.customerId,
                              !.existing = existingTransaction.amount]]
    /\ UNCHANGED <<now, static, db, workers>>

(* The update throws when the row is gone or when the new customerId names *)
(* no customer; the unit rolls back and the catch block answers 500.       *)
DashEditCommit(r) ==
    /\ reqs[r].pc = "edit"
    /\ LET q == reqs[r]
           found == {t \in transactions : t.id = q.id}
       IN IF found = {} \/ (q.custId # 0 /\ q.custId \notin DOMAIN customers)
          THEN /\ transactions' = transactions
               /\ customers' = customers
               /\ reqs' = [reqs EXCEPT ![r] =
                             Respond(q, 500, ErrorBody("Failed to update transaction"))]
          ELSE LET row == CHOOSE t \in found : TRUE
                   moved == [row EXCEPT !.customerId =
                                IF q.custId # 0 THEN q.custId ELSE @]
               IN IF q.amount # 0 /\ q.amount # q.existing
                  THEN LET oldPoints == calculatePoints(q.existing)
                           newPoints == calculatePoints(q.amount)
                           pointsDifference == newPoints - oldPoints
                       IN /\ transactions' = (transactions \ {row}) \cup
                                                {[moved EXCEPT !.amount = q.amount]}
                          /\ customers' = [customers EXCEPT
                                             ![q.cust].points = @ + pointsDifference]
                          /\ reqs' = [reqs EXCEPT ![r] =
                                        Respond(q, 200, UpdatedBody(<<pointsDifference>>))]
                  ELSE /\ transactions' = (transactions \ {row}) \cup {moved}
                       /\ customers' = customers
                       /\ reqs' = [reqs EXCEPT ![r] =
                                     Respond(q, 200, UpdatedBody(<<>>))]
    /\ UNCHANGED <<now, static, nextTxId, redemptions, nextRedId, deliveries, idem,
                   workers>>

-----------------------------------------------------------------------------
(* Specification of the dashboard transaction handlers with edits of the   *)
(* amount only.                                                            *)

InitEdits == InitWith(3, AllHooks)

NextEdits ==
    \/ \E b \in Businesses, c \in {1, 2}, a \in {100, 250} : DashCreate(b, c, a)
    \/ \E r \in Reqs, id \in 0..MaxTx, a \in {99, 250} : DashEditRead(r, id, a, 0)
    \/ \E r \in Reqs : DashEditCommit(r)
    \/ \E id \in 1..MaxTx : DashDelete(id)

SpecEdits == InitEdits /\ [][NextEdits]_vars

(* C22: transaction edit applies the signed point difference.  A step that *)
(* changes the amount of a Transaction row from A to A' changes, in the    *)
(* same step, the balance of the customer who owns the row by exactly      *)
(* floor(A'/100) - floor(A/100), and no other balance.                     *)
EditAppliesSignedDifference ==
    [][\A t \in transactions, u \in transactions' :
          (t.id = u.id /\ t.amount # u.amount)
          => \A c \in DOMAIN customers :
                customers'[c].points - customers[c].points =
                    IF c = t.customerId
                    THEN calculatePoints(u.amount) - calculatePoints(t.amount)
                    ELSE 0
      ]_vars


-----------------------------------------------------------------------------
(* Specification of the dashboard transaction handlers with edits that     *)
(* carry a new customerId (3 names no customer), alone or with a new       *)
(* amount.                                                                 *)

MoveInputs == {<<0, 2>>, <<99, 2>>, <<0, 3>>}

InitMoves == InitWith(3, AllHooks)

NextMoves ==
    \/ \E b \in Businesses, c \in {1, 2} : DashCreate(b, c, 250)
    \/ \E r \in Reqs, id \in 0..MaxTx, e \in MoveInputs :
          DashEditRead(r, id, e[1], e[2])
    \/ \E r \in Reqs : DashEditCommit(r)
    \/ \E id \in 1..MaxTx : DashDelete(id)

SpecMoves == InitMoves /\ [][NextMoves]_vars

(* C29: ledger invariant over transaction operations.  After any sequence  *)
(* of transaction creates, edits (of amount, of customerId or of both) and *)
(* deletes, with no edit in flight, every customer's balance is its        *)
(* initial balance (3) plus the sum of floor(amount / 100) over the        *)
(* Transaction rows currently attributed to that customer.                 *)
LedgerOverTransactionOperations ==
    (\A r \in Reqs : reqs[r].pc \in {"idle", "done"})
    => LedgerOf(3, customers, transactions, {})


-----------------------------------------------------------------------------
(* Dashboard /api/redemptions: POST (create), PUT (edit) and DELETE.  Each *)
(* handler reads with findUnique and writes in a later awaited call, the   *)
(* writes of a balance inside prisma.$transaction.  customerId = 0 and     *)
(* rewardId = 0 stand for a body without the field; date is left out of    *)
(* the body.                                                               *)

RedemptionBody(fields, message) == DataBody(fields, <<message>>)

(* POST: validation, customer and reward lookup, points check. *)
RedemptionPostRead(r, customerId, rewardId) ==
    /\ reqs[r].pc = "idle"
    /\ \A r0 \in Reqs : r0 < r => reqs[r0].pc # "idle"
    /\ LET q == EditRequest("redemptionPost", 0, 0, customerId, rewardId)
       IN reqs' = [reqs EXCEPT ![r] =
            IF customerId = 0 \/ rewardId = 0
            THEN Respond(q, 400,
                         ErrorBody("Missing required fields: customerId, rewardId"))
            ELSE IF customerId \notin DOMAIN customers
            THEN Respond(q, 404, ErrorBody("Customer not found"))
            ELSE IF ~RewardExists(rewardId)
            THEN Respond(q, 404, ErrorBody("Reward not found"))
            ELSE LET customer == customers[customerId]
                     reward == rewards[rewardId]
                 IN IF customer.points < reward.pointsRequired
                    THEN Respond(q, 400,
                                 DetailBody("Insufficient points",
                                            <<customer.points, reward.pointsRequired>>))
                    ELSE [q EXCEPT !.pc = "redeem", !.cust = customerId,
                                   !.avail = customer.points,
                                   !.need = reward.pointsRequired]]
    /\ UNCHANGED <<now, static, db, workers>>

(* POST: prisma.$transaction {redemption.create, decrement}. *)
RedemptionPostCommit(r) ==
    /\ reqs[r].pc = "redeem"
    /\ LET q == reqs[r]
       IN IF RewardExists(q.rewardId)
          THEN /\ redemptions' = redemptions \cup
                     {[id |-> nextRedId, customerId |-> q.custId,
                       rewardId |-> q.rewardId]}
               /\ nextRedId' = nextRedId + 1
               /\ customers' = [customers EXCEPT ![q.custId].points = @ - q.need]
               /\ reqs' = [reqs EXCEPT ![r] =
                     [Respond(q, 201,
                              RedemptionBody(<<nextRedId, q.need, q.avail - q.need>>,
                                             "Reward redeemed successfully"))
                        EXCEPT !.result = nextRedId]]
          ELSE /\ reqs' = [reqs EXCEPT ![r] =
                     Respond(q, 500, ErrorBody("Failed to create redemption"))]
               /\ UNCHANGED <<redemptions, nextRedId, customers>>
    /\ UNCHANGED <<now, static, transactions, nextTxId, deliveries, idem, workers>>

(* DELETE: findUnique with the customer and the reward included. *)
RedemptionDeleteRead(r, id) ==
    /\ reqs[r].pc = "idle"
    /\ \A r0 \in Reqs : r0 < r => reqs[r0].pc # "idle"
    /\ LET q == EditRequest("redemptionDelete", id, 0, 0, 0)
           found == {x \in redemptions : x.id = id}
       IN reqs' = [reqs EXCEPT ![r] =
            IF id = 0
            THEN Respond(q, 400, ErrorBody("Redemption ID is required"))
            ELSE IF found = {}
            THEN Respond(q, 404, ErrorBody("Redemption not found"))
            ELSE LET existingRedemption == CHOOSE x \in found : TRUE
                 IN [q EXCEPT !.pc = "unredeem",
                              !.cust = existingRedemption.customerId,
                              !.existing = existingRedemption.rewardId,
                              !.need = rewards[existingRedemption.rewardId].pointsRequired]]
    /\ UNCHANGED <<now, static, db, workers>>

(* A delete that removes the row and leaves the balance as it is. *)
RedemptionDeleteCommitKeepsBalance(r) ==
    /\ reqs[r].pc = "unredeem"
    /\ LET q == reqs[r]
       IN /\ redemptions' = {x \in redemptions : x.id # q.id}
          /\ reqs' = [reqs EXCEPT ![r] =
                Respond(q, 200, RedemptionBody(<<q.need>>,
                                               "Redemption deleted successfully"))]
    /\ UNCHANGED <<now, static, customers, transactions, nextTxId, nextRedId,
                   deliveries, idem, workers>>

(* DELETE: prisma.$transaction {redemption.delete, increment}; the delete  *)
(* throws when the row is gone and the catch block answers 500.            *)
RedemptionDeleteCommit(r) ==
    /\ reqs[r].pc = "unredeem"
    /\ LET q == reqs[r]
           found == {x \in redemptions : x.id = q.id}
       IN IF found = {}
          THEN /\ reqs' = [reqs EXCEPT ![r] =
                     Respond(q, 500, ErrorBody("Failed to delete redemption"))]
               /\ UNCHANGED <<redemptions, customers>>
          ELSE /\ redemptions' = redemptions \ found
               /\ customers' = [customers EXCEPT ![q.cust].points = @ + q.need]
               /\ reqs' = [reqs EXCEPT ![r] =
                     Respond(q, 200, RedemptionBody(<<q.need>>,
                                                    "Redemption deleted successfully"))]
    /\ UNCHANGED <<now, static, transactions, nextTxId, nextRedId, deliveries, idem,
                   workers>>

(* PUT: findUnique with the customer and the reward included. *)
RedemptionPutRead(r, id, customerId, rewardId) ==
    /\ reqs[r].pc = "idle"
    /\ \A r0 \in Reqs : r0 < r => reqs[r0].pc # "idle"
    /\ LET q == EditRequest("redemptionPut", id, 0, customerId, rewardId)
           found == {x \in redemptions : x.id = id}
       IN reqs' = [reqs EXCEPT ![r] =
            IF id = 0
            THEN Respond(q, 400, ErrorBody("Redemption ID is required"))
            ELSE IF found = {}
            THEN Respond(q, 404, ErrorBody("Redemption not found"))
            ELSE LET existingRedemption == CHOOSE x \in found : TRUE
                 IN [q EXCEPT !.pc = "change",
                              !.cust = existingRedemption.customerId,
                              !.avail = customers[existingRedemption.customerId].points,
                              !.existing = existingRedemption.rewardId,
                              !.need = rewards[existingRedemption.rewardId].pointsRequired]]
    /\ UNCHANGED <<now, static, db, workers>>

(* PUT, the reward is being changed: lookup of the new reward and points   *)
(* check; awarded holds pointsDifference.  Otherwise: the plain update of  *)
(* the row, which throws when the row is gone or the new customerId names  *)
(* no customer.                                                            *)
RedemptionPutLookup(r) ==
    /\ reqs[r].pc = "change"
    /\ LET q == reqs[r]
           found == {x \in redemptions : x.id = q.id}
       IN IF q.rewardId # 0 /\ q.rewardId # q.existing
          THEN /\ redemptions' = redemptions
               /\ reqs' = [reqs EXCEPT ![r] =
                    IF ~RewardExists(q.rewardId)
                    THEN Respond(q, 404, ErrorBody("New reward not found"))
                    ELSE LET newReward == rewards[q.rewardId]
                             pointsDifference == newReward.pointsRequired - q.need
                         IN IF q.avail + q.need < newReward.pointsRequired
                            THEN Respond(q, 400,
                                         ErrorBody("Insufficient points for new reward"))
                            ELSE [q EXCEPT !.pc = "adjust",
                                           !.awarded = pointsDifference]]
          ELSE IF found = {} \/ (q.custId # 0 /\ q.custId \notin DOMAIN customers)
          THEN /\ redemptions' = redemptions
               /\ reqs' = [reqs EXCEPT ![r] =
                     Respond(q, 500, ErrorBody("Failed to update redemption"))]
          ELSE LET row == CHOOSE x \in found : TRUE
               IN /\ redemptions' = (redemptions \ {row}) \cup
                        {[row EXCEPT !.customerId =
                             IF q.custId # 0 THEN q.custId ELSE @]}
                  /\ reqs' = [reqs EXCEPT ![r] =
                        Respond(q, 200, RedemptionBody(<<>>,
                                            "Redemption updated successfully"))]
    /\ UNCHANGED <<now, static, customers, transactions, nextTxId, nextRedId,
                   deliveries, idem, workers>>

(* PUT: prisma.$transaction {redemption.update, increment by               *)
(* pointsDifference}.                                                      *)
RedemptionPutCommit(r) ==
    /\ reqs[r].pc = "adjust"
    /\ LET q == reqs[r]
           found == {x \in redemptions : x.id = q.id}
           pointsDifference == q.awarded
       IN IF \/ found = {}
             \/ ~RewardExists(q.rewardId)
             \/ (q.custId # 0 /\ q.custId \notin DOMAIN customers)
          THEN /\ reqs' = [reqs EXCEPT ![r] =
                     Respond(q, 500, ErrorBody("Failed to update redemption"))]
               /\ UNCHANGED <<redemptions, customers>>
          ELSE LET row == CHOOSE x \in found : TRUE
               IN /\ redemptions' = (redemptions \ {row}) \cup
                        {[row EXCEPT !.rewardId = q.rewardId,
                                     !.customerId =
                                         IF q.custId # 0 THEN q.custId ELSE @]}
                  /\ customers' = [customers EXCEPT
                                     ![q.cust].points = @ + pointsDifference]
                  /\ reqs' = [reqs EXCEPT ![r] =
                        Respond(q, 200, RedemptionBody(<<pointsDifference>>,
                                            "Redemption updated successfully"))]
    /\ UNCHANGED <<now, static, transactions, nextTxId, nextRedId, deliveries, idem,
                   workers>>

-----------------------------------------------------------------------------
(* Specification of dashboard redemption create and delete: no redemption  *)
(* and no reward is edited.                                                *)

(* The seeded database, as it is or after customer 1 (3 points) has        *)
(* redeemed reward 1 (2 points).                                           *)
InitRedeemed(count) ==
    /\ now = 0
    /\ apiKeys = SeedApiKeys
    /\ customers = <<SeedCustomer(1, "a@x", "Ann",
                                  3 - count * SeedRewards[1].pointsRequired),
                     SeedCustomer(2, "b@x", "Bob", 3)>>
    /\ rewards = SeedRewards
    /\ transactions = {}
    /\ nextTxId = 1
    /\ redemptions = {[id |-> id, customerId |-> 1, rewardId |-> 1] : id \in 1..count}
    /\ nextRedId = count + 1
    /\ webhooks = AllHooks
    /\ deliveries = <<>>
    /\ idem = {}
    /\ reqs = [r \in Reqs |-> IdleReq]
    /\ workers = [w \in Workers |-> IdleWorker]

InitRedemptions == \E count \in {0, 1} : InitRedeemed(count)

NextRedemptions ==
    \/ \E r \in Reqs, c \in 0..3, w \in 0..4 : RedemptionPostRead(r, c, w)
    \/ \E r \in Reqs : RedemptionPostCommit(r)
    \/ \E r \in Reqs, id \in 0..MaxReqs : RedemptionDeleteRead(r, id)
    \/ \E r \in Reqs : RedemptionDeleteCommit(r)

SpecRedemptions == InitRedemptions /\ [][NextRedemptions]_vars

(* C23: redemption delete reverses the decrement.  A step that removes a   *)
(* Redemption row adds, in the same step, the pointsRequired of the row's  *)
(* reward to the balance of the row's customer and changes no other        *)
(* balance; and after every step each balance is its seeded value (3)      *)
(* minus the pointsRequired of the customer's current Redemption rows, so  *)
(* that a create followed by the delete of the created row returns the     *)
(* balance to its value before the create.                                 *)
DeleteReversesDecrement ==
    [][/\ \A x \in redemptions \ redemptions' :
             /\ \A y \in redemptions' : y.id # x.id
             /\ \A c \in DOMAIN customers :
                   customers'[c].points - customers[c].points =
                       IF c = x.customerId
                       THEN rewards[x.rewardId].pointsRequired
                       ELSE 0
       /\ LedgerOf(3, customers', {}, redemptions')
      ]_vars

(* A redemption of reward 1 (2 points) by customer 1 was created and then  *)
(* deleted: the balance is 3 again.                                        *)
CreatedThenDeletedRedemption ==
    \E r1, r2 \in Reqs :
        /\ reqs[r1].kind = "redemptionPost"
        /\ reqs[r1].resp.status = 201
        /\ reqs[r1].custId = 1
        /\ reqs[r1].rewardId = 1
        /\ reqs[r2].kind = "redemptionDelete"
        /\ reqs[r2].id = reqs[r1].result
        /\ reqs[r2].resp.status = 200
        /\ reqs[r2].resp.body.data = <<2>>
        /\ redemptions = {}
        /\ customers[1].points = 3


-----------------------------------------------------------------------------
(* Specification of dashboard redemption create, edit of the reward and    *)
(* delete.  Reward 4 does not exist.                                       *)

NextRedemptionEdits ==
    \/ \E r \in Reqs, c \in {1, 2}, w \in {1, 2} : RedemptionPostRead(r, c, w)
    \/ \E r \in Reqs : RedemptionPostCommit(r)
    \/ \E r \in Reqs, id \in 0..MaxReqs, w \in 0..4 : RedemptionPutRead(r, id, 0, w)
    \/ \E r \in Reqs : RedemptionPutLookup(r)
    \/ \E r \in Reqs : RedemptionPutCommit(r)
    \/ \E r \in Reqs, id \in 1..MaxReqs : RedemptionDeleteRead(r, id)
    \/ \E r \in Reqs : RedemptionDeleteCommit(r)

SpecRedemptionEdits == InitRedemptions /\ [][NextRedemptionEdits]_vars

(* C26: redemption edit keeps the ledger consistent.  A step that changes  *)
(* the reward of a Redemption row from R1 to R2 changes the balance of the *)
(* row's customer by R1.pointsRequired - R2.pointsRequired (a more         *)
(* expensive reward lowers the balance, a cheaper one raises it) and no    *)
(* other balance.                                                          *)
RedemptionEditKeepsLedger ==
    [][\A x \in redemptions, y \in redemptions' :
          (x.id = y.id /\ x.rewardId # y.rewardId)
          => \A c \in DOMAIN customers :
                customers'[c].points - customers[c].points =
                    IF c = x.customerId
                    THEN rewards[x.rewardId].pointsRequired
                         - rewards[y.rewardId].pointsRequired
                    ELSE 0
      ]_vars


-----------------------------------------------------------------------------
(* Specification of transaction-create and redemption-create with requests *)
(* that are rejected, units that abort and enqueues that fail, on webhooks *)
(* subscribed to every event.                                              *)

CommitPayloads ==
    { Payload(1, "", 250, 0, "", ""),
      Payload(1, "", -5, 0, "", ""),
      Payload(2, "", 250, 0, "", ""),
      Payload(1, "", 0, 1, "", ""),
      Payload(1, "", 0, 3, "", "") }

InitCommits == InitWith(2, AllHooks)

NextCommits ==
    \/ \E r \in Reqs, p \in CommitPayloads, apiKey \in {"key1", "keyOff"} :
          Receive(r, IF p.rewardId = 0 THEN "tx" ELSE "redeem", apiKey, "", p)
    \/ \E r \in Reqs : Check(r)
    \/ \E r \in Reqs : TxLookup(r)
    \/ \E r \in Reqs : RedeemLookup(r)
    \/ \E r \in Reqs : LookupThrows(r)
    \/ \E r \in Reqs : TxCommit(r)
    \/ \E r \in Reqs : RedeemCommit(r)
    \/ \E r \in Reqs : CommitThrows(r)
    \/ \E r \in Reqs : TxEmit(r)
    \/ \E r \in Reqs : TxEmitThrows(r)
    \/ \E r \in Reqs : RedeemEmit(r)
    \/ \E r \in Reqs : RedeemEmitThrows(r)
    \/ \E r \in Reqs : Store(r)

SpecCommits == InitCommits /\ [][NextCommits]_vars

(* The events a handler emits for the row it committed. *)
EventsOf(kind) ==
    IF kind = "tx" THEN {"transaction_created", "points_awarded"}
    ELSE IF kind = "redeem" THEN {"redemption_completed"}
    ELSE {"customer_created"}

(* C24: events are emitted only after commit.  A step that creates         *)
(* Delivery rows is the emit step of one request whose Transaction or      *)
(* Redemption row is already committed together with its balance change    *)
(* (every balance is the seeded 2 plus the points of the transactions      *)
(* minus the pointsRequired of the redemptions); the step changes no row   *)
(* and no balance, and the new Delivery rows carry the events of that      *)
(* request and refer to its row (points_awarded: to its customer).  A      *)
(* request that ends with 400, 401, 404 or 500 has committed no row and    *)
(* has created no Delivery row, in its last step or before.                *)
EmittedOnlyAfterCommit ==
    [][/\ deliveries' # deliveries
          => /\ Len(deliveries') > Len(deliveries)
             /\ SubSeq(deliveries', 1, Len(deliveries)) = deliveries
             /\ UNCHANGED <<customers, transactions, redemptions>>
             /\ LedgerOf(2, customers, transactions, redemptions)
             /\ \E r \in Reqs :
                   LET q == reqs[r]
                   IN /\ q.pc = "emit"
                      /\ q.result # 0
                      /\ Committed(q)
                      /\ reqs'[r] = [q EXCEPT !.pc = "store"]
                      /\ \A r0 \in Reqs \ {r} : reqs'[r0] = reqs[r0]
                      /\ \A i \in (Len(deliveries) + 1)..Len(deliveries') :
                            LET d == deliveries'[i]
                            IN /\ d.event \in EventsOf(q.kind)
                               /\ d.ref = IF d.event = "points_awarded"
                                          THEN q.cust ELSE q.result
       /\ \A r \in Reqs :
             (reqs[r].pc # "done" /\ reqs'[r].pc = "done"
              /\ reqs'[r].resp.status \in ErrorStatuses)
             => /\ deliveries' = deliveries
                /\ reqs[r].result = 0
                /\ reqs[r].pc # "store"
                /\ UNCHANGED <<customers, transactions, redemptions>>
      ]_vars

(* One request was answered 500 after its unit aborted, another one 201;   *)
(* the only Delivery rows are those of the second request, whose row is    *)
(* the only row.                                                           *)
AbortedWithoutDelivery ==
    \E r1, r2 \in Reqs :
        /\ reqs[r1].kind = "tx"
        /\ reqs[r1].pc = "done"
        /\ reqs[r1].resp.status = 500
        /\ reqs[r1].resp.body.text = <<"$transaction">>
        /\ reqs[r2].kind = "redeem"
        /\ reqs[r2].pc = "done"
        /\ reqs[r2].resp.status = 201
        /\ transactions = {}
        /\ Cardinality(redemptions) = 1
        /\ Len(deliveries) = 2
        /\ \A i \in DOMAIN deliveries :
              /\ deliveries[i].event = "redemption_completed"
              /\ deliveries[i].ref = reqs[r2].result


-----------------------------------------------------------------------------
(* Specification of the worker invoked again and again, one invocation at  *)
(* a time, on the Delivery rows of two transaction-creates; no request     *)
(* enqueues any more.  The scheduler invokes the worker whenever rows are  *)
(* eligible, every fetch returns or throws, every update returns.          *)

SpecSweepFair ==
    /\ InitSweep
    /\ [][NextSweep]_vars
    /\ WF_vars(WorkerSelect(1))
    /\ WF_vars(WorkerPost(1))
    /\ WF_vars(WorkerUpdate(1))

Terminal(d) == deliveries[d].status \in {"success", "failed"}

(* C25: every delivery eventually terminates.  With the worker invoked     *)
(* again and again, every Delivery row is eventually success or failed and *)
(* stays so; its attempts never exceed 5 and change only by one, at the    *)
(* update that follows its own POST; and every row of a batch is POSTed in *)
(* the invocation that selected it, whatever the outcome of the POSTs of   *)
(* the rows before it: after the update of a row the invocation goes on to *)
(* the POST of the next row of its batch.  (Two transaction-creates        *)
(* enqueue at most four rows.)                                             *)
EveryDeliveryTerminates ==
    /\ <>[](\A d \in DOMAIN deliveries : Terminal(d))
    /\ [](\A d \in DOMAIN deliveries : deliveries[d].attempts <= MaxAttempts)
    /\ [][\A d \in DOMAIN deliveries :
            deliveries'[d] # deliveries[d]
            => /\ workers[1].pc = "update"
               /\ Head(workers[1].batch).id = d
               /\ deliveries'[d].attempts = deliveries[d].attempts + 1
         ]_vars
    /\ [][workers[1].pc = "update"
          => /\ workers'[1].batch = Tail(workers[1].batch)
             /\ workers'[1].pc = IF Tail(workers[1].batch) = <<>>
                                 THEN "idle" ELSE "post"
         ]_vars
    /\ \A d \in 1..4 :
          (d \in DOMAIN deliveries /\ InBatch(1, d))
          ~> (workers[1].pc = "update" /\ Head(workers[1].batch).id = d)

(* Every row is terminal: one has failed after 5 attempts while another    *)
(* row of the same batches was delivered at its first attempt.             *)
AllDeliveriesTerminal ==
    /\ \A d \in DOMAIN deliveries : Terminal(d)
    /\ workers[1].pc = "idle"
    /\ \E d1, d2 \in DOMAIN deliveries :
          /\ d1 < d2
          /\ deliveries[d1].status = "failed"
          /\ deliveries[d1].attempts = 5
          /\ deliveries[d2].status = "success"
          /\ deliveries[d2].attempts = 1


-----------------------------------------------------------------------------
(* Properties of customer upsert across tenants *)

(* C27: customer upsert is tenant-isolated.  The upsert step of a request  *)
(* authenticated as tenant T leaves every Customer row of another tenant   *)
(* as it is and puts no such row's id, name, phone or points in the        *)
(* response, for any email supplied.                                       *)
UpsertTenantIsolated ==
    [][\A r \in Reqs :
         LET q == reqs[r]
         IN (q.kind = "upsert" /\ q.pc = "lookup" /\ reqs'[r] # q)
            => \A c \in DOMAIN customers :
                  customers[c].businessId # q.biz
                  => /\ customers'[c] = customers[c]
                     /\ reqs'[r].result # c
                     /\ reqs'[r].resp.body.data # <<c, customers[c].points>>
      ]_vars


-----------------------------------------------------------------------------
(* Properties of overlapping worker invocations *)

(* C28: no delivery is POSTed more than 5 times.  Under any interleaving   *)
(* of worker invocations, attempts counts the POSTs made for a row and     *)
(* never exceeds 5: a row is POSTed only while it is pending with fewer    *)
(* than 5 attempts stored, and the update that follows each POST adds      *)
(* exactly one to the attempts stored.                                     *)
PostsCountedAndBounded ==
    [][\A w \in Workers :
         LET d == Head(workers[w].batch).id
         IN /\ (workers[w].pc = "post" /\ workers'[w].pc = "update")
               => /\ deliveries[d].status = "pending"
                  /\ deliveries[d].attempts < MaxAttempts
            /\ (workers[w].pc = "update" /\ workers'[w] # workers[w])
               => /\ deliveries'[d].attempts = deliveries[d].attempts + 1
                  /\ deliveries'[d].attempts <= MaxAttempts
      ]_vars


-----------------------------------------------------------------------------
(* Specification of one tenant using one Idempotency-Key on the three      *)
(* integration endpoints.                                                  *)

InitEndpoints == InitWith(3, AllHooks)

NextEndpoints ==
    \/ \E r \in Reqs :
          Receive(r, "upsert", "key1", "K", Payload(0, "c@x", 0, 0, "Cy", ""))
    \/ \E r \in Reqs :
          Receive(r, "tx", "key1", "K", Payload(1, "", 250, 0, "", ""))
    \/ \E r \in Reqs :
          Receive(r, "redeem", "key1", "K", Payload(1, "", 0, 1, "", ""))
    \/ \E r \in Reqs : Check(r)
    \/ \E r \in Reqs : UpsertExec(r)
    \/ \E r \in Reqs : UpsertEmit(r)
    \/ \E r \in Reqs : TxLookup(r)
    \/ \E r \in Reqs : TxCommit(r)
    \/ \E r \in Reqs : TxEmit(r)
    \/ \E r \in Reqs : RedeemLookup(r)
    \/ \E r \in Reqs : RedeemCommit(r)
    \/ \E r \in Reqs : RedeemEmit(r)
    \/ \E r \in Reqs : Store(r)
    \/ Tick

SpecEndpoints == InitEndpoints /\ [][NextEndpoints]_vars

(* C30: a cached idempotency record replays only the operation that stored *)
(* it.  A request answered from the idempotency store at its check (it     *)
(* executes nothing) receives the response of an earlier request of the    *)
(* same tenant with the same key on the same endpoint; a request whose key *)
(* was used on other endpoints only goes on to execute.                    *)
ReplayOnlySameEndpoint ==
    [][\A r \in Reqs :
         LET q == reqs[r]
         IN (q.pc = "check" /\ reqs'[r].pc = "done")
            => \E r0 \in Reqs \ {r} :
                  /\ reqs[r0].pc = "done"
                  /\ reqs[r0].kind = q.kind
                  /\ reqs[r0].key = q.key
                  /\ reqs[r0].biz = q.biz
                  /\ reqs[r0].resp.status = SuccessStatus(q.kind)
                  /\ reqs'[r].resp = reqs[r0].resp
      ]_vars

====
